---- MODULE Spec2Model ----
(***************************************************************************)
(* geebee-rs: the LCD mode machine (src/src/lcd.rs), the interrupt         *)
(* controller and the CPU step (src/src/cpu.rs), the timer                 *)
(* (src/src/timer.rs).                                                     *)
(*                                                                         *)
(* Memory is tracked on a few cells only: VideoAddrs in VRAM, OamAddrs in  *)
(* OAM, RamAddrs in high RAM for the stack; other cells are not tracked.   *)
(* The instruction stream is an input: each fetched byte is chosen from a  *)
(* small set, whatever the ROM holds.  Pixel                               *)
(* contents of the framebuffer are not modelled; drawn_line records which  *)
(* scanline the latest LCD advance rendered.                               *)
(***************************************************************************)
EXTENDS Integers, Sequences, FiniteSets, TLC

\* ---------------------------------------------------------------- bounds
\* LCD::advance is fed 1..MaxTicks units of 12 clocks (3 machine cycles);
\* 12 is the cost of an interrupt dispatch and 24 that of the longest opcode
MaxTicks == 2
\* CPU steps explored from each start state of SpecCpu
MaxSteps == 2
\* the timer on its own is fed at most MaxCycles clocks
MaxCycles == 2100
\* cycles of instructions executed by the register and stack runs
MaxOpCycles == 60
\* clocks the LCD is advanced in the VRAM DMA runs: two scanlines and more
MaxLcdCycles == 960
\* a display that is never switched off is fed at most MaxFrameCycles
\* clocks: two frames and the start of the third
MaxFrameCycles == 140600

\* ------------------------------------------------------ program constants
SCREEN_HEIGHT == 144
OAM_CYCLES == 80
VRAM_CYCLES == 172
HBLANK_CYCLES == 204
VBLANK_CYCLES == 4560
LINE_CYCLES == 456
DIV_RATE == 256
HALT_CYCLES == 4
INTERRUPT_CYCLES == 12
VECTOR_BASE == 64
VECTOR_STEP == 8
\* length of the boot ROM image handed to Boot::with_mbc
BOOT_ROM_LEN == 256
\* length of the vector MBC2::new allocates
MBC2_RAM_SIZE == 512

\* markers of the model: no scanline rendered, Option::None
NoLine == 255
None == 0 - 1
\* a read that panics: unreachable!() or an index out of bounds
Abort == 0 - 2

Timings == {12 * k : k \in 1..MaxTicks}

\* values a guest writes to STAT (0xFF41), LYC (0xFF45), LCDC (0xFF40)
StatValues == {0, 8, 16, 32, 64}
LycValues == {0, 144}
LcdcValues == {0, 128}
LycStatValues == {0, 64}
ByteValues == {0, 171}
CellValues == {171}
\* IE and IF as the guest left them
IeValues == {0, 1, 5, 31}
IfValues == {0, 1, 6, 16}

\* tracked cells: VRAM 0x8000.., OAM 0xFE00.., high RAM below 0xFFFF
VideoAddrs == {32768, 32769, 32784, 32800, 32816}
OamAddrs == {65024, 65025}
RamAddrs == 65520 .. 65534
GuestVideoAddrs == {32768}
GuestOamAddrs == {65024}

\* the cartridge image read through Memory::read
\* (indexed by file offset; the 16 KiB banks differ at every offset)
RomByte(address) == (address * 7 + 1 + (address \div 16384)) % 256

\* the boot ROM image
BootByte(address) == (address * 3 + 2) % 256

\* ---------------------------------------------------------------- helpers
Pow2(n) == IF n = 0 THEN 1 ELSE IF n = 1 THEN 2 ELSE IF n = 2 THEN 4
           ELSE IF n = 3 THEN 8 ELSE IF n = 4 THEN 16 ELSE IF n = 5 THEN 32
           ELSE IF n = 6 THEN 64 ELSE 128

Bit(v, i) == (v \div Pow2(i)) % 2 = 1

\* v | (1 << i) and v & !(1 << i) on a byte
SetBit(v, i) == IF Bit(v, i) THEN v ELSE v + Pow2(i)
ClearBit(v, i) == IF Bit(v, i) THEN v - Pow2(i) ELSE v

\* a & b on bytes
BitAnd(a, b) ==
    (a % 2) * (b % 2)
    + ((a \div 2) % 2) * ((b \div 2) % 2) * 2
    + ((a \div 4) % 2) * ((b \div 4) % 2) * 4
    + ((a \div 8) % 2) * ((b \div 8) % 2) * 8
    + ((a \div 16) % 2) * ((b \div 16) % 2) * 16
    + ((a \div 32) % 2) * ((b \div 32) % 2) * 32
    + ((a \div 64) % 2) * ((b \div 64) % 2) * 64
    + ((a \div 128) % 2) * ((b \div 128) % 2) * 128

\* a | b on bytes
BitOr(a, b) == a + b - BitAnd(a, b)

\* the element of a singleton: {e(x) : x \in {v}} binds x to v the way a
\* Rust `let` does, v being computed once
The(S) == CHOOSE x \in S : TRUE

\* ------------------------------------------------------------------ state
VARIABLES
    \* LCD (src/src/lcd.rs, struct LCD and its Registers)
    display_enable, enabled, mode, ly, mode_timing, lyc,
    lyc_equals_lc, mode_2_oam, mode_1_vblank, mode_0_hblank, coincidence,
    oam_access, vram_access, done_frame, video, video_bank, oam, drawn_line,
    hdma_type, hdma_transfer, dma_source, dma_dest,
    \* CPU (src/src/cpu.rs, struct CPU and struct Interrupts)
    \* regs holds b, c, d, e, h, l and the flags f of struct Registers; its a
    \* is the variable a
    interrupts_enabled, enable, flag, halt, sp, pc, a, ram, regs,
    \* Memory (src/src/memory.rs): booting, the bank registers, the
    \* cartridge's controller and the tracked work RAM cells
    memory,
    \* Timer (src/src/timer.rs)
    div, tima, tma, tac,
    \* position inside CPU::step and its local `timing`; steps counts the
    \* completed CPU steps; bus is the byte the last guest read returned
    pos, timing, steps, bus,
    \* Joypad (src/src/joypad.rs): selection, buttons, flag, interrupts
    joypad,
    \* a SubTimer on its own (src/src/timer.rs), as timer.rs's test drives it
    subtimer,
    \* what the last call of Joypad::check_interrupts or SubTimer::inc returned
    returned,
    \* the clocks fed to Timer::advance since the machine was constructed
    cycles,
    \* src/src/bytes.rs: a u16 `value` and the bytes `high`, `low`
    conv,
    \* a bare MBC1 (src/src/mbc/mbc1.rs) and a Boot wrapper around an MBC1
    \* (src/src/mbc/boot.rs) that is sent the same reads and writes
    mbc1, boot,
    \* an MBC2 (src/src/mbc/mbc2.rs)
    mbc2,
    \* what the last read returned, from the bare controller and from the
    \* wrapper, or from each of the MBC1, the MBC3 and the MBC5
    out,
    \* a ROM buffer handed to Cartridge::with_data (src/src/cart.rs) and what
    \* the call gave back
    cart,
    \* an MBC3 and an MBC5 (src/src/mbc/mbc3.rs, mbc5.rs)
    mbc3, mbc5

lcdVars == <<display_enable, enabled, mode, ly, mode_timing, lyc,
             lyc_equals_lc, mode_2_oam, mode_1_vblank, mode_0_hblank,
             coincidence, oam_access, vram_access, done_frame, video,
             video_bank, oam, drawn_line, hdma_type, hdma_transfer,
             dma_source, dma_dest>>

cpuVars == <<interrupts_enabled, enable, flag, halt, sp, pc, a, ram, regs,
             memory>>

timerVars == <<div, tima, tma, tac>>

stepVars == <<pos, timing, steps, bus>>

\* the state outside the CPU and what it owns
auxVars == <<joypad, subtimer, returned, cycles>>

\* the byte helpers, the cartridge controllers and Memory
loadVars == <<cart, mbc3, mbc5>>
busVars == <<conv, mbc1, boot, mbc2, out, loadVars>>

vars == <<lcdVars, cpuVars, timerVars, stepVars, auxVars, busVars>>

\* the whole machine as one value, for the code that runs in sequence
Machine ==
    [display_enable |-> display_enable, enabled |-> enabled, mode |-> mode,
     ly |-> ly, mode_timing |-> mode_timing, lyc |-> lyc,
     lyc_equals_lc |-> lyc_equals_lc, mode_2_oam |-> mode_2_oam,
     mode_1_vblank |-> mode_1_vblank, mode_0_hblank |-> mode_0_hblank,
     coincidence |-> coincidence, oam_access |-> oam_access,
     vram_access |-> vram_access, done_frame |-> done_frame,
     video |-> video, video_bank |-> video_bank, oam |-> oam,
     drawn_line |-> drawn_line, hdma_type |-> hdma_type,
     hdma_transfer |-> hdma_transfer, dma_source |-> dma_source,
     dma_dest |-> dma_dest,
     interrupts_enabled |-> interrupts_enabled, enable |-> enable,
     flag |-> flag, halt |-> halt, sp |-> sp, pc |-> pc, a |-> a,
     ram |-> ram, regs |-> regs, memory |-> memory, div |-> div, tima |-> tima, tma |-> tma, tac |-> tac,
     pos |-> pos, timing |-> timing, steps |-> steps, bus |-> bus]

\* the CPU and what it owns become s
SetCore(s) ==
    /\ display_enable' = s.display_enable
    /\ enabled' = s.enabled
    /\ mode' = s.mode
    /\ ly' = s.ly
    /\ mode_timing' = s.mode_timing
    /\ lyc' = s.lyc
    /\ lyc_equals_lc' = s.lyc_equals_lc
    /\ mode_2_oam' = s.mode_2_oam
    /\ mode_1_vblank' = s.mode_1_vblank
    /\ mode_0_hblank' = s.mode_0_hblank
    /\ coincidence' = s.coincidence
    /\ oam_access' = s.oam_access
    /\ vram_access' = s.vram_access
    /\ done_frame' = s.done_frame
    /\ video' = s.video
    /\ video_bank' = s.video_bank
    /\ oam' = s.oam
    /\ drawn_line' = s.drawn_line
    /\ hdma_type' = s.hdma_type
    /\ hdma_transfer' = s.hdma_transfer
    /\ dma_source' = s.dma_source
    /\ dma_dest' = s.dma_dest
    /\ interrupts_enabled' = s.interrupts_enabled
    /\ enable' = s.enable
    /\ flag' = s.flag
    /\ halt' = s.halt
    /\ sp' = s.sp
    /\ pc' = s.pc
    /\ a' = s.a
    /\ ram' = s.ram
    /\ regs' = s.regs
    /\ memory' = s.memory
    /\ div' = s.div
    /\ tima' = s.tima
    /\ tma' = s.tma
    /\ tac' = s.tac
    /\ pos' = s.pos
    /\ timing' = s.timing
    /\ steps' = s.steps
    /\ bus' = s.bus

\* the CPU and what it owns become s; CPU::step and the LCD touch nothing else
SetMachine(s) ==
    /\ SetCore(s)
    /\ UNCHANGED <<auxVars, busVars>>


\* ----------------------------------------------------------------- memory
\* a cell of work_ram; cells outside WorkCells are not tracked
work_read(w, index) == IF index \in DOMAIN w THEN w[index] ELSE 0
work_write(w, index, value) ==
    IF index \in DOMAIN w THEN [w EXCEPT ![index] = value] ELSE w

\* Memory::read with the echo of 0xd000..0xddff reading bank 0
mem_read_echo_bank0(s, address) ==
    IF address <= 255
    THEN IF s.memory.booting THEN BootByte(address) ELSE RomByte(address)
    ELSE IF address <= 16383 THEN RomByte(address)
    ELSE IF address <= 32767
    THEN RomByte(16384 * s.memory.rom_bank + (address - 16384))
    ELSE IF (address >= 49152 /\ address <= 53247)
            \/ (address >= 57344 /\ address <= 61439)
    THEN work_read(s.memory.work_ram, address % 4096)
    ELSE IF address >= 53248 /\ address <= 57343
    THEN work_read(s.memory.work_ram,
                   s.memory.work_ram_bank * 4096 + (address % 4096))
    ELSE IF address >= 61440 /\ address <= 65023
    THEN work_read(s.memory.work_ram, address % 4096)
    ELSE IF address = 65392 THEN s.memory.work_ram_bank
    ELSE IF address \in RamAddrs THEN s.ram[address]
    ELSE 0

\* Memory::read: the boot ROM or the cartridge below 0x0100, the cartridge
\* and its switched bank below 0x8000, work RAM and its echo, the work RAM
\* bank register, the tracked high RAM cells
mem_read(s, address) ==
    IF address <= 255
    THEN IF s.memory.booting THEN BootByte(address) ELSE RomByte(address)
    ELSE IF address <= 16383 THEN RomByte(address)
    ELSE IF address <= 32767
    THEN RomByte(16384 * s.memory.rom_bank + (address - 16384))
    ELSE IF (address >= 49152 /\ address <= 53247)
            \/ (address >= 57344 /\ address <= 61439)
    THEN work_read(s.memory.work_ram, address % 4096)
    ELSE IF (address >= 53248 /\ address <= 57343)
            \/ (address >= 61440 /\ address <= 65023)
    THEN work_read(s.memory.work_ram,
                   s.memory.work_ram_bank * 4096 + (address % 4096))
    ELSE IF address = 65392 THEN s.memory.work_ram_bank
    ELSE IF address \in RamAddrs THEN s.ram[address]
    ELSE 0

\* Memory::write, 0x0000..=0x1fff: external RAM enable
mem_write_ram_enable(m, address, value) ==
    [m EXCEPT !.external_ram_enabled =
        CASE m.controller = "MBC1" -> value % 16 = 10
          [] m.controller \in {"MBC2", "MBC3"} ->
               IF ~Bit(address \div 256, 0) THEN ~@ ELSE @
          [] OTHER -> @]

\* Memory::write, 0x2000..=0x3fff: the ROM bank
mem_write_rom_bank(m, address, value) ==
    [m EXCEPT !.rom_bank =
        CASE m.controller = "MBC1" ->
               LET v == IF value % 32 = 0 THEN 1 ELSE value % 32
               IN BitOr(BitAnd(@, 239), v)
          [] m.controller = "MBC2" ->
               IF ~Bit(address \div 256, 0) THEN @
               ELSE IF value % 16 = 0 THEN 1 ELSE value % 16
          [] OTHER -> value]

\* Memory::write, 0x4000..=0x5fff: the RAM bank or the upper ROM bank bits
mem_write_upper(m, value) ==
    IF m.controller # "MBC1" THEN m
    ELSE IF m.rom_ram_mode = 1
    THEN [m EXCEPT !.external_ram_bank = value % 4]
    ELSE [m EXCEPT !.rom_bank = BitOr(BitAnd(@, 207), (value % 4) * 16)]

\* Memory::write, 0x6000..=0x7fff: the ROM/RAM mode
mem_write_mode(m, value) ==
    IF m.controller # "MBC1" THEN m
    ELSE IF value % 2 = 0
    THEN [m EXCEPT !.rom_ram_mode = 0, !.external_ram_bank = 0]
    ELSE [m EXCEPT !.rom_ram_mode = 1, !.rom_bank = BitAnd(@, 31)]

\* Memory::write: the controller registers below 0x8000, work RAM and its
\* echo, the work RAM bank register, the tracked high RAM cells, and the
\* panic! of the 0xffff arm, recorded in memory.aborted
mem_write(s, address, value) ==
    IF address <= 8191
    THEN [s EXCEPT !.memory = mem_write_ram_enable(@, address, value)]
    ELSE IF address <= 16383
    THEN [s EXCEPT !.memory = mem_write_rom_bank(@, address, value)]
    ELSE IF address <= 24575
    THEN [s EXCEPT !.memory = mem_write_upper(@, value)]
    ELSE IF address <= 32767
    THEN [s EXCEPT !.memory = mem_write_mode(@, value)]
    ELSE IF (address >= 49152 /\ address <= 53247)
            \/ (address >= 57344 /\ address <= 61439)
    THEN [s EXCEPT !.memory.work_ram = work_write(@, address % 4096, value)]
    ELSE IF (address >= 53248 /\ address <= 57343)
            \/ (address >= 61440 /\ address <= 65023)
    THEN [s EXCEPT !.memory.work_ram =
            work_write(@, s.memory.work_ram_bank * 4096 + (address % 4096),
                       value)]
    ELSE IF address = 65392
    THEN [s EXCEPT !.memory.work_ram_bank =
            IF value % 8 = 0 THEN 1 ELSE value % 8]
    ELSE IF address \in RamAddrs THEN [s EXCEPT !.ram[address] = value]
    ELSE IF address = 65535 THEN [s EXCEPT !.memory.aborted = TRUE]
    ELSE s

\* ------------------------------------------------------- cartridge (mbc/)
\* MBC1::read
mbc1_read(m, address) ==
    IF address <= 16383 THEN RomByte(address)
    ELSE IF address <= 32767
    THEN RomByte(16384 * m.rom_bank + (address - 16384))
    ELSE IF address >= 40960 /\ address <= 49151
    THEN IF m.ram_enabled
         THEN work_read(m.ram, (4096 * m.ram_bank + (address - 40960)) % 65536)
         ELSE 0
    ELSE Abort

\* MBC1::write, 0x2000..=0x3fff
mbc1_write_rom_bank(m, value) ==
    LET v == IF value % 32 = 0 THEN 1 ELSE value % 32
    IN [m EXCEPT !.rom_bank = BitOr(BitAnd(@, 224), v)]

\* MBC1::write
mbc1_write(m, address, value) ==
    IF address <= 8191 THEN [m EXCEPT !.ram_enabled = (value % 16 = 10)]
    ELSE IF address <= 16383 THEN mbc1_write_rom_bank(m, value)
    ELSE IF address <= 24575
    THEN IF m.rom_ram_mode = 1
         THEN [m EXCEPT !.ram_bank = value % 4]
         ELSE [m EXCEPT !.rom_bank = BitOr(BitAnd(@, 207), (value % 4) * 16)]
    ELSE IF address <= 32767
    THEN IF value % 2 = 0
         THEN [m EXCEPT !.rom_ram_mode = 0, !.ram_bank = 0]
         ELSE [m EXCEPT !.rom_ram_mode = 1, !.rom_bank = BitAnd(@, 31)]
    ELSE IF m.ram_enabled
    THEN [m EXCEPT !.ram =
            work_write(@, (4096 * m.ram_bank + (address - 40960)) % 65536,
                       value)]
    ELSE m

\* the header bytes of a ROM image, 0x0134..=0x014d
HeaderAddrs == 308 .. 333

\* an image of `len` bytes with the header `header`; EmptyRom is the buffer
\* of Cartridge::new
EmptyRom == [len |-> 0, header |-> [i \in HeaderAddrs |-> 0]]

\* CartType::default
CartTypeDefault ==
    [controller |-> "None", ram |-> FALSE, battery |-> FALSE,
     timer |-> FALSE, rumble |-> FALSE]

\* impl From<u8> for CartType; Abort is the panic! of the last arm
cart_type_from(t) ==
    LET d == CartTypeDefault
    IN CASE t = 0 -> d
         [] t = 1 -> [d EXCEPT !.controller = "MBC1", !.ram = TRUE]
         [] t = 3 -> [d EXCEPT !.controller = "MBC1", !.ram = TRUE,
                               !.battery = TRUE]
         [] t = 5 -> [d EXCEPT !.controller = "MBC2"]
         [] t = 6 -> [d EXCEPT !.controller = "MBC2", !.battery = TRUE]
         [] t = 8 -> [d EXCEPT !.ram = TRUE]
         [] t = 9 -> [d EXCEPT !.ram = TRUE, !.battery = TRUE]
         [] t = 15 -> [d EXCEPT !.controller = "MBC3", !.timer = TRUE,
                                !.battery = TRUE]
         [] t = 16 -> [d EXCEPT !.controller = "MBC3", !.timer = TRUE,
                                !.ram = TRUE, !.battery = TRUE]
         [] t = 17 -> [d EXCEPT !.controller = "MBC3"]
         [] t = 18 -> [d EXCEPT !.controller = "MBC3", !.ram = TRUE]
         [] t = 19 -> [d EXCEPT !.controller = "MBC3", !.ram = TRUE,
                                !.battery = TRUE]
         [] t = 21 -> [d EXCEPT !.controller = "MBC4"]
         [] t = 22 -> [d EXCEPT !.controller = "MBC4", !.ram = TRUE]
         [] t = 23 -> [d EXCEPT !.controller = "MBC4", !.ram = TRUE,
                                !.battery = TRUE]
         [] t = 25 -> [d EXCEPT !.controller = "MBC5"]
         [] t = 26 -> [d EXCEPT !.controller = "MBC5", !.ram = TRUE]
         [] t = 27 -> [d EXCEPT !.controller = "MBC5", !.ram = TRUE,
                                !.battery = TRUE]
         [] t = 28 -> [d EXCEPT !.controller = "MBC5", !.rumble = TRUE]
         [] t = 29 -> [d EXCEPT !.controller = "MBC5", !.rumble = TRUE,
                                !.ram = TRUE]
         [] t = 30 -> [d EXCEPT !.controller = "MBC5", !.rumble = TRUE,
                                !.ram = TRUE, !.battery = TRUE]
         [] OTHER -> Abort

\* the loop of Cartridge::verify_checksum over 0x0134..=i
RECURSIVE header_sum(_, _)
header_sum(header, i) ==
    IF i < 308 THEN 0
    ELSE (header_sum(header, i - 1) + 512 - header[i] - 1) % 256

\* Cartridge::verify_checksum: Ok(()) or Err(ChecksumFailed)
verify_checksum(data) == header_sum(data.header, 332) = data.header[333]

\* String::from_utf8 of the title bytes 0x0134..0x013e; the images loaded
\* here hold ASCII bytes or the byte 0xff, which no UTF-8 text contains
title_from_utf8(data) == \A i \in 308 .. 318 : data.header[i] < 128

\* the cartridge-type bytes with an arm of their own in CartType::from
CartTypeArms ==
    {0, 1, 3, 5, 6, 8, 9, 15, 16, 17, 18, 19, 21, 22, 23, 25, 26, 27, 28, 29, 30}

\* Cartridge::with_data on Cartridge::new(): the Result and, for Ok, the
\* cartridge; "abort" is the panic! inside CartType::from
with_data(data) ==
    IF data.len < 16384
    THEN [result |-> "InvalidRom", cartridge |-> None]
    ELSE IF ~verify_checksum(data)
    THEN [result |-> "ChecksumFailed", cartridge |-> None]
    ELSE IF ~title_from_utf8(data)
    THEN [result |-> "Str", cartridge |-> None]
    ELSE IF data.header[327] \notin CartTypeArms
    THEN [result |-> "abort", cartridge |-> None]
    ELSE [result |-> "Ok",
          cartridge |-> [cart_type |-> cart_type_from(data.header[327]),
                         cgb |-> data.header[323] \in {128, 192},
                         sgb |-> data.header[326] = 3]]

\* MBC3::read; Abort is unreachable!()
mbc3_read(m, address) ==
    IF address <= 16383 THEN RomByte(address)
    ELSE IF address <= 32767
    THEN RomByte(16384 * m.rom_bank + (address - 16384))
    ELSE IF address >= 40960 /\ address <= 49151
    THEN IF m.ram_enabled
         THEN IF m.ram_bank <= 3
              THEN work_read(m.ram, 4096 * m.ram_bank + (address - 40960))
              ELSE IF m.ram_bank >= 8 /\ m.ram_bank <= 12
              THEN m.rtc[m.ram_bank - 8]
              ELSE Abort
         ELSE 0
    ELSE Abort

\* MBC3::write
mbc3_write(m, address, value) ==
    IF address <= 8191 THEN [m EXCEPT !.ram_enabled = (value % 16 = 10)]
    ELSE IF address <= 16383
    THEN [m EXCEPT !.rom_bank = BitOr(BitAnd(@, 128), value % 128)]
    ELSE IF address <= 24575 THEN [m EXCEPT !.ram_bank = value % 16]
    ELSE IF address <= 32767 THEN m
    ELSE IF m.ram_enabled
    THEN IF m.ram_bank <= 3
         THEN [m EXCEPT !.ram =
                 work_write(@, 4096 * m.ram_bank + (address - 40960), value)]
         ELSE IF m.ram_bank >= 8 /\ m.ram_bank <= 12
         THEN [m EXCEPT !.rtc[m.ram_bank - 8] = value]
         ELSE m
    ELSE m

\* MBC5::read; the RAM arm multiplies in u16: past 0xffff the product wraps
\* in a build without overflow checks (`wrap`) and panics in one with them
mbc5_read(m, address, wrap) ==
    IF address <= 16383 THEN RomByte(address)
    ELSE IF address <= 32767
    THEN RomByte(16384 * m.rom_bank + (address - 16384))
    ELSE IF address >= 40960 /\ address <= 49151
    THEN IF m.ram_enabled
         THEN IF 8192 * m.ram_bank <= 65535
              THEN work_read(m.ram, 8192 * m.ram_bank + (address - 40960))
              ELSE IF wrap
              THEN work_read(m.ram, ((8192 * m.ram_bank) % 65536)
                                    + (address - 40960))
              ELSE Abort
         ELSE 0
    ELSE Abort

\* MBC5::write; the RAM arm multiplies in usize
mbc5_write(m, address, value) ==
    IF address <= 8191 THEN [m EXCEPT !.ram_enabled = (value % 16 = 10)]
    ELSE IF address <= 12287
    THEN [m EXCEPT !.rom_bank = (@ \div 256) * 256 + value]
    ELSE IF address <= 16383
    THEN [m EXCEPT !.rom_bank = (IF value % 2 = 1 THEN 256 ELSE 0) + (@ % 256)]
    ELSE IF address <= 24575 THEN [m EXCEPT !.ram_bank = value % 16]
    ELSE IF address <= 32767 THEN m
    ELSE IF m.ram_enabled
    THEN [m EXCEPT !.ram =
            work_write(@, 8192 * m.ram_bank + (address - 40960), value)]
    ELSE m

\* MBC2::read; the RAM arm indexes `ram` with the bus address
mbc2_read(m, address) ==
    IF address <= 16383 THEN RomByte(address)
    ELSE IF address <= 32767
    THEN RomByte(16384 * m.rom_bank + (address - 16384))
    ELSE IF address >= 40960 /\ address <= 41471
    THEN IF m.ram_enabled
         THEN IF address < MBC2_RAM_SIZE
              THEN work_read(m.ram, address) % 16
              ELSE Abort
         ELSE 0
    ELSE Abort

\* MBC2::write
mbc2_write(m, address, value) ==
    IF address <= 8191
    THEN IF ~Bit(address \div 256, 0) THEN [m EXCEPT !.ram_enabled = ~@] ELSE m
    ELSE IF address <= 16383
    THEN [m EXCEPT !.rom_bank =
            (IF ~Bit(address \div 256, 0) THEN @
             ELSE IF value % 16 = 0 THEN 1 ELSE value % 16) % 16]
    ELSE IF m.ram_enabled
    THEN [m EXCEPT !.ram = work_write(@, address - 40960, value % 16)]
    ELSE m

\* impl MBC for Boot: read
boot_read(b, address) ==
    IF address >= 256 /\ address <= 335 THEN mbc1_read(b.mbc, address)
    ELSE IF address < BOOT_ROM_LEN THEN BootByte(address)
    ELSE Abort

\* impl MBC for Boot: write
boot_write(b, address, value) == b

\* bytes::extract and bytes::assemble
\* extract with the masks of the register setters, 0xf0 and 0x0f
extract_nibbles(value) ==
    <<((((value % 256) \div 16) * 16) \div 256) % 256, value % 16>>
extract(value) == <<(value \div 256) % 256, value % 256>>
assemble(high, low) == high * 256 + low

\* -------------------------------------------------------------------- LCD
\* set_mode without the VBlank interrupt request
set_mode_no_vblank(s, m) ==
    IF s.mode = m THEN s
    ELSE LET s1 == [s EXCEPT !.mode = m]
         IN IF \/ (m = "HBlank" /\ s1.mode_0_hblank)
               \/ (m = "VBlank" /\ s1.mode_1_vblank)
               \/ (m = "OAM" /\ s1.mode_2_oam)
            THEN [s1 EXCEPT !.flag = SetBit(@, 1)]
            ELSE s1

\* set_mode with the STAT enable bits of modes 0 and 2 taken for each other
set_mode_swapped(s, m) ==
    IF s.mode = m THEN s
    ELSE LET s1 == [s EXCEPT !.mode = m]
             s2 == IF \/ (m = "HBlank" /\ s1.mode_2_oam)
                      \/ (m = "VBlank" /\ s1.mode_1_vblank)
                      \/ (m = "OAM" /\ s1.mode_0_hblank)
                   THEN [s1 EXCEPT !.flag = SetBit(@, 1)]
                   ELSE s1
         IN IF m = "VBlank" THEN [s2 EXCEPT !.flag = SetBit(@, 0)] ELSE s2

\* LCD::set_mode
set_mode(s, m) ==
    IF s.mode = m THEN s
    ELSE LET s1 == [s EXCEPT !.mode = m]
             s2 == IF \/ (m = "HBlank" /\ s1.mode_0_hblank)
                      \/ (m = "VBlank" /\ s1.mode_1_vblank)
                      \/ (m = "OAM" /\ s1.mode_2_oam)
                   THEN [s1 EXCEPT !.flag = SetBit(@, 1)]
                   ELSE s1
         IN IF m = "VBlank" THEN [s2 EXCEPT !.flag = SetBit(@, 0)] ELSE s2

\* LCD::draw_line: which scanline is rendered (pixels are not modelled)
draw_line(s, line) ==
    IF line >= SCREEN_HEIGHT THEN s ELSE [s EXCEPT !.drawn_line = line]

\* LCD::handle_write 0x8000..=0x9fff
write_video(s, address, value) ==
    LET cell == 32768 + ((8192 * s.video_bank + (address - 32768)) % 16384)
    IN IF s.vram_access /\ cell \in VideoAddrs
       THEN [s EXCEPT !.video[cell] = value]
       ELSE s

\* LCD::handle_write 0xfe00..=0xfe9f
write_oam(s, address, value) ==
    IF s.oam_access /\ address \in OamAddrs
    THEN [s EXCEPT !.oam[address] = value]
    ELSE s

\* LCD::hdma_transfer_block, the copy loop from byte i on
RECURSIVE hdma_copy(_, _)
hdma_copy(s, i) ==
    IF i >= 16 THEN s
    ELSE LET start == s.dma_source - (s.dma_source % 16)
             end == ((s.dma_dest % 8192) - (s.dma_dest % 16)) + 32768
         IN hdma_copy(write_video(s, end + i, mem_read(s, start + i)), i + 1)

\* LCD::hdma_transfer_block
hdma_transfer_block(s) ==
    LET s1 == hdma_copy(s, 0)
        s2 == [s1 EXCEPT !.dma_source = (@ + 16) % 65536,
                         !.dma_dest = (@ + 16) % 65536,
                         !.hdma_transfer = (@ + 255) % 256]
    IN IF s2.hdma_transfer = 255 THEN [s2 EXCEPT !.hdma_type = "None"] ELSE s2

\* LCD::hdma_transfer, the loop of the general-purpose transfer
RECURSIVE gdma_loop(_)
gdma_loop(s) ==
    IF s.hdma_transfer # 255 THEN gdma_loop(hdma_transfer_block(s)) ELSE s

\* hdma_transfer moving every remaining block of an HBlank transfer at once
hdma_transfer_all(s) ==
    CASE s.hdma_type = "GDMA" -> gdma_loop(s)
      [] s.hdma_type = "HDMA" -> gdma_loop(s)
      [] OTHER -> s

\* LCD::hdma_transfer
hdma_transfer_op(s) ==
    CASE s.hdma_type = "GDMA" -> gdma_loop(s)
      [] s.hdma_type = "HDMA" -> hdma_transfer_block(s)
      [] OTHER -> s

\* advance_mode entering VBlank one line late
advance_mode_late_vblank(s) ==
    CASE s.mode = "OAM" ->
            IF s.mode_timing >= OAM_CYCLES
            THEN set_mode([s EXCEPT !.mode_timing = @ - OAM_CYCLES], "VRAM")
            ELSE s
      [] s.mode = "VRAM" ->
            IF s.mode_timing >= VRAM_CYCLES
            THEN LET s1 == set_mode([s EXCEPT !.mode_timing = @ - VRAM_CYCLES],
                                    "HBlank")
                 IN hdma_transfer_op(draw_line(s1, s1.ly))
            ELSE s
      [] s.mode = "HBlank" ->
            IF s.mode_timing >= HBLANK_CYCLES
            THEN LET s1 == [s EXCEPT !.mode_timing = @ - HBLANK_CYCLES,
                                     !.ly = (@ + 1) % 256]
                 IN set_mode(s1, IF s1.ly > SCREEN_HEIGHT THEN "VBlank"
                                 ELSE "OAM")
            ELSE s
      [] s.mode = "VBlank" ->
            IF s.mode_timing >= VBLANK_CYCLES
            THEN [set_mode(s, "OAM") EXCEPT !.mode_timing = @ - VBLANK_CYCLES,
                                            !.ly = 0,
                                            !.done_frame = TRUE]
            ELSE [s EXCEPT !.ly = ((s.mode_timing \div LINE_CYCLES)
                                   + SCREEN_HEIGHT) % 256]

\* advance_mode leaving LY alone during VBlank
advance_mode_stale_ly(s) ==
    CASE s.mode = "OAM" ->
            IF s.mode_timing >= OAM_CYCLES
            THEN set_mode([s EXCEPT !.mode_timing = @ - OAM_CYCLES], "VRAM")
            ELSE s
      [] s.mode = "VRAM" ->
            IF s.mode_timing >= VRAM_CYCLES
            THEN LET s1 == set_mode([s EXCEPT !.mode_timing = @ - VRAM_CYCLES],
                                    "HBlank")
                 IN hdma_transfer_op(draw_line(s1, s1.ly))
            ELSE s
      [] s.mode = "HBlank" ->
            IF s.mode_timing >= HBLANK_CYCLES
            THEN LET s1 == [s EXCEPT !.mode_timing = @ - HBLANK_CYCLES,
                                     !.ly = (@ + 1) % 256]
                 IN set_mode(s1, IF s1.ly >= SCREEN_HEIGHT THEN "VBlank"
                                 ELSE "OAM")
            ELSE s
      [] s.mode = "VBlank" ->
            IF s.mode_timing >= VBLANK_CYCLES
            THEN [set_mode(s, "OAM") EXCEPT !.mode_timing = @ - VBLANK_CYCLES,
                                            !.ly = 0,
                                            !.done_frame = TRUE]
            ELSE s

\* advance_mode starting every mode with an empty accumulator
advance_mode_restart(s) ==
    CASE s.mode = "OAM" ->
            IF s.mode_timing >= OAM_CYCLES
            THEN set_mode([s EXCEPT !.mode_timing = 0], "VRAM")
            ELSE s
      [] s.mode = "VRAM" ->
            IF s.mode_timing >= VRAM_CYCLES
            THEN LET s1 == set_mode([s EXCEPT !.mode_timing = 0], "HBlank")
                 IN hdma_transfer_op(draw_line(s1, s1.ly))
            ELSE s
      [] s.mode = "HBlank" ->
            IF s.mode_timing >= HBLANK_CYCLES
            THEN LET s1 == [s EXCEPT !.mode_timing = 0,
                                     !.ly = (@ + 1) % 256]
                 IN set_mode(s1, IF s1.ly >= SCREEN_HEIGHT THEN "VBlank"
                                 ELSE "OAM")
            ELSE s
      [] s.mode = "VBlank" ->
            IF s.mode_timing >= VBLANK_CYCLES
            THEN [set_mode(s, "OAM") EXCEPT !.mode_timing = 0,
                                            !.ly = 0,
                                            !.done_frame = TRUE]
            ELSE [s EXCEPT !.ly = ((s.mode_timing \div LINE_CYCLES)
                                   + SCREEN_HEIGHT) % 256]

\* LCD::advance, the match on the mode that may end
advance_mode(s) ==
    CASE s.mode = "OAM" ->
            IF s.mode_timing >= OAM_CYCLES
            THEN set_mode([s EXCEPT !.mode_timing = @ - OAM_CYCLES], "VRAM")
            ELSE s
      [] s.mode = "VRAM" ->
            IF s.mode_timing >= VRAM_CYCLES
            THEN LET s1 == set_mode([s EXCEPT !.mode_timing = @ - VRAM_CYCLES],
                                    "HBlank")
                 IN hdma_transfer_op(draw_line(s1, s1.ly))
            ELSE s
      [] s.mode = "HBlank" ->
            IF s.mode_timing >= HBLANK_CYCLES
            THEN LET s1 == [s EXCEPT !.mode_timing = @ - HBLANK_CYCLES,
                                     !.ly = (@ + 1) % 256]
                 IN set_mode(s1, IF s1.ly >= SCREEN_HEIGHT THEN "VBlank"
                                 ELSE "OAM")
            ELSE s
      [] s.mode = "VBlank" ->
            IF s.mode_timing >= VBLANK_CYCLES
            THEN [set_mode(s, "OAM") EXCEPT !.mode_timing = @ - VBLANK_CYCLES,
                                            !.ly = 0,
                                            !.done_frame = TRUE]
            ELSE [s EXCEPT !.ly = ((s.mode_timing \div LINE_CYCLES)
                                   + SCREEN_HEIGHT) % 256]

\* advance_coincidence requesting the interrupt whatever the LYC enable bit
advance_coincidence_unmasked(s) ==
    LET s1 == [s EXCEPT !.coincidence = (s.ly = s.lyc)]
    IN IF s1.coincidence
       THEN [s1 EXCEPT !.flag = SetBit(@, 1)]
       ELSE s1

\* LCD::advance, the coincidence flag and its interrupt
advance_coincidence(s) ==
    LET s1 == [s EXCEPT !.coincidence = (s.ly = s.lyc)]
    IN IF s1.coincidence /\ s1.lyc_equals_lc
       THEN [s1 EXCEPT !.flag = SetBit(@, 1)]
       ELSE s1

\* advance_access leaving OAM open during the OAM search
advance_access_open(s) ==
    CASE s.mode = "OAM" -> [s EXCEPT !.oam_access = TRUE, !.vram_access = TRUE]
      [] s.mode = "VRAM" -> [s EXCEPT !.oam_access = FALSE, !.vram_access = FALSE]
      [] OTHER -> [s EXCEPT !.oam_access = TRUE, !.vram_access = TRUE]

\* LCD::advance, the access flags of the mode reached
advance_access(s) ==
    CASE s.mode = "OAM" -> [s EXCEPT !.oam_access = FALSE, !.vram_access = TRUE]
      [] s.mode = "VRAM" -> [s EXCEPT !.oam_access = FALSE, !.vram_access = FALSE]
      [] OTHER -> [s EXCEPT !.oam_access = TRUE, !.vram_access = TRUE]

\* LCD::advance, the display switched off
advance_disabled(s) ==
    IF s.enabled
    THEN [set_mode([s EXCEPT !.ly = 0], "HBlank")
            EXCEPT !.mode_timing = 0, !.enabled = FALSE]
    ELSE s

\* LCD::advance, the display found switched on
advance_enable(s) ==
    IF ~s.enabled
    THEN [set_mode(s, "OAM") EXCEPT !.mode_timing = 0, !.enabled = TRUE]
    ELSE s

\* LCD::advance
advance(s, t) ==
    LET s0 == [s EXCEPT !.done_frame = FALSE, !.oam_access = TRUE,
                        !.vram_access = TRUE, !.drawn_line = NoLine]
        s1 == IF s0.hdma_type = "GDMA" THEN hdma_transfer_op(s0) ELSE s0
    IN IF ~s1.display_enable
       THEN advance_disabled(s1)
       ELSE LET s2 == advance_enable(s1)
                s3 == [s2 EXCEPT !.mode_timing = (@ + t) % 65536]
            IN advance_access(advance_coincidence(advance_mode(s3)))

\* LCD::handle_read for VRAM, the VRAM bank and DMA registers, and OAM
handle_read(s, address) ==
    IF address >= 32768 /\ address <= 40959
    THEN IF s.vram_access
         THEN s.video[32768 + ((8192 * s.video_bank + (address - 32768)) % 16384)]
         ELSE 0
    ELSE IF address = 65359 THEN s.video_bank
    ELSE IF address = 65361 THEN (BitAnd(s.dma_source, 240) \div 256) % 256
    ELSE IF address = 65362 THEN s.dma_source % 16
    ELSE IF address = 65363 THEN (BitAnd(s.dma_dest, 240) \div 256) % 256
    ELSE IF address = 65364 THEN s.dma_dest % 16
    ELSE IF address = 65365 THEN s.hdma_transfer
    ELSE IF s.oam_access THEN s.oam[address] ELSE 0

\* LCD::dma
dma(s, value) ==
    [s EXCEPT !.oam = [x \in OamAddrs |->
                         IF s.oam_access
                         THEN mem_read(s, value * 256 + (x - 65024))
                         ELSE s.oam[x]]]

\* STAT::update
stat_update(s, f) ==
    [s EXCEPT !.lyc_equals_lc = Bit(f, 6), !.mode_2_oam = Bit(f, 5),
              !.mode_1_vblank = Bit(f, 4), !.mode_0_hblank = Bit(f, 3)]

\* LCD::start_hdma_transfer
start_hdma_transfer(s, value) ==
    IF s.hdma_type = "HDMA"
    THEN IF ~Bit(value, 7)
         THEN [s EXCEPT !.hdma_transfer = SetBit(@, 7), !.hdma_type = "None"]
         ELSE s
    ELSE [s EXCEPT !.dma_source = @ - (@ % 16),
                   !.dma_dest = (@ % 8192) - (@ % 16),
                   !.hdma_type = IF Bit(value, 7) THEN "HDMA" ELSE "GDMA",
                   !.hdma_transfer = value % 128]

\* LCD::handle_write
handle_write(s, address, value) ==
    CASE address >= 32768 /\ address <= 40959 -> write_video(s, address, value)
      [] address >= 65024 /\ address <= 65183 -> write_oam(s, address, value)
      [] address = 65344 -> [s EXCEPT !.display_enable = Bit(value, 7)]
      [] address = 65345 -> stat_update(s, value)
      [] address = 65348 -> s
      [] address = 65349 -> [s EXCEPT !.lyc = value]
      [] address = 65350 -> dma(s, value)
      [] address = 65359 -> [s EXCEPT !.video_bank = value % 2]
      [] address = 65361 -> [s EXCEPT !.dma_source = value * 256 + (@ % 16)]
      [] address = 65362 ->
           [s EXCEPT !.dma_source = BitOr(value, BitAnd(@, 240))]
      [] address = 65363 -> [s EXCEPT !.dma_dest = value * 256 + (@ % 16)]
      [] address = 65364 -> [s EXCEPT !.dma_dest = BitOr(value, BitAnd(@, 240))]
      [] address = 65365 -> start_hdma_transfer(s, value)
      [] OTHER -> s

\* ------------------------------------------------------------------ timer
\* TAC::rate
rate(clock) ==
    CASE clock = 0 -> 1024
      [] clock = 1 -> 16
      [] clock = 2 -> 64
      [] clock = 3 -> 256

\* SubTimer::set_timer
set_timer(st, v) == [st EXCEPT !.value = v]

\* SubTimer::set_rate
set_rate(st, r) == [st EXCEPT !.rate = r]

\* the while loop of inc entered as soon as the accumulator equals the rate
RECURSIVE inc_loop_at_rate(_)
inc_loop_at_rate(r) ==
    IF r.st.timer >= r.st.rate
    THEN LET v == (r.st.value + 1) % 256
         IN inc_loop_at_rate([st |-> [r.st EXCEPT !.timer = @ - r.st.rate,
                                                  !.value = v],
                              overflow |-> (r.overflow \/ v = 0)])
    ELSE r

\* SubTimer::inc, the while loop
RECURSIVE inc_loop(_)
inc_loop(r) ==
    IF r.st.timer > r.st.rate
    THEN LET v == (r.st.value + 1) % 256
         IN inc_loop([st |-> [r.st EXCEPT !.timer = @ - r.st.rate, !.value = v],
                      overflow |-> (r.overflow \/ v = 0)])
    ELSE r

\* SubTimer::inc
inc(st, value) ==
    inc_loop([st |-> [st EXCEPT !.timer = @ + value], overflow |-> FALSE])

\* Timer::advance: the machine after it and the overflow it returns
timer_advance(s, t) ==
    LET s1 == [s EXCEPT !.div = inc(s.div, t).st]
    IN IF ~s1.tac.start
       THEN [s |-> s1, overflow |-> FALSE]
       ELSE LET r == inc(s1.tima, t)
            IN [s |-> [s1 EXCEPT !.tima = IF r.overflow
                                          THEN [r.st EXCEPT !.value = s1.tma]
                                          ELSE r.st],
                overflow |-> r.overflow]

\* Timer::set_tac
set_tac(s, value) ==
    LET tc == [start |-> Bit(value, 2), clock |-> value % 4]
    IN [s EXCEPT !.tac = tc, !.tima.rate = rate(tc.clock)]

\* -------------------------------------------------------------------- CPU
\* CPU::advance_timer
advance_timer(s, t) ==
    LET r == timer_advance(s, t)
    IN IF ~r.overflow THEN r.s ELSE [r.s EXCEPT !.flag = SetBit(@, 2)]

\* CPU::write leaving the boot ROM on any store to 0xff50
cpu_write_boot_any(s, address, value) ==
    CASE address = 65284 -> [s EXCEPT !.div.value = 0]
      [] address = 65285 -> [s EXCEPT !.tima.value = value]
      [] address = 65286 -> [s EXCEPT !.tma = value]
      [] address = 65287 -> set_tac(s, value)
      [] address = 65295 -> [s EXCEPT !.flag = value]
      [] address >= 65344 /\ address <= 65355 -> handle_write(s, address, value)
      [] address = 65360 ->
           [s EXCEPT !.memory.booting = FALSE]
      [] address = 65535 -> [s EXCEPT !.enable = value]
      [] OTHER -> mem_write(s, address, value)

\* CPU::write.  Stores to 0xff40..=0xff4b go to the LCD: CPU::handle_lcd_write
\* edits the LCD registers through LCD::regs and LCD::set_regs, which lcd.rs
\* does not have, so the store is given to the register store lcd.rs does
\* have, LCD::handle_write.
cpu_write(s, address, value) ==
    CASE address = 65284 -> [s EXCEPT !.div.value = 0]
      [] address = 65285 -> [s EXCEPT !.tima.value = value]
      [] address = 65286 -> [s EXCEPT !.tma = value]
      [] address = 65287 -> set_tac(s, value)
      [] address = 65295 -> [s EXCEPT !.flag = value]
      [] address >= 65344 /\ address <= 65355 -> handle_write(s, address, value)
      [] address = 65360 ->
           IF value # 0 THEN [s EXCEPT !.memory.booting = FALSE] ELSE s
      [] address = 65535 -> [s EXCEPT !.enable = value]
      [] OTHER -> mem_write(s, address, value)

\* CPU::read
cpu_read(s, address) ==
    CASE address = 65284 -> s.div.value
      [] address = 65285 -> s.tima.value
      [] address = 65286 -> s.tma
      [] address = 65287 -> s.tac.clock + (IF s.tac.start THEN 4 ELSE 0)
      [] address = 65295 -> s.flag
      [] address = 65360 -> 0
      [] address = 65535 -> s.enable
      [] OTHER -> mem_read(s, address)

\* impl From<u8> for Flags
flags_from(f) ==
    [zero |-> Bit(f, 7), carry |-> Bit(f, 6), add_sub |-> Bit(f, 5),
     half_carry |-> Bit(f, 4)]

\* impl From<Flags> for u8
flags_u8(f) ==
    (IF f.zero THEN 128 ELSE 0) + (IF f.carry THEN 64 ELSE 0)
    + (IF f.add_sub THEN 32 ELSE 0) + (IF f.half_carry THEN 16 ELSE 0)

\* Registers::af, bc, de, hl
af(s) == s.a * 256 + flags_u8(s.regs.f)
bc(s) == s.regs.b * 256 + s.regs.c
de(s) == s.regs.d * 256 + s.regs.e
hl(s) == s.regs.h * 256 + s.regs.l

\* Registers::set_af: `(af & 0xf0) >> 8` and `af & 0x0f`
set_af(s, v) ==
    [s EXCEPT !.a = (BitAnd(v, 240) \div 256) % 256,
              !.regs.f = flags_from(BitAnd(v, 15))]

\* Registers::set_bc, set_de, set_hl: `(x & 0xf0) >> 8` and `x & 0x0f`
set_bc(s, v) ==
    [s EXCEPT !.regs.b = (BitAnd(v, 240) \div 256) % 256,
              !.regs.c = BitAnd(v, 15)]
set_de(s, v) ==
    [s EXCEPT !.regs.d = (BitAnd(v, 240) \div 256) % 256,
              !.regs.e = BitAnd(v, 15)]
set_hl(s, v) ==
    [s EXCEPT !.regs.h = (BitAnd(v, 240) \div 256) % 256,
              !.regs.l = BitAnd(v, 15)]

\* CPU::op_push
op_push(s, value) ==
    LET s1 == cpu_write(s, s.sp, extract(value)[1])
        s2 == [s1 EXCEPT !.sp = (@ + 65535) % 65536]
        s3 == cpu_write(s2, s2.sp, extract(value)[2])
    IN [s3 EXCEPT !.sp = (@ + 65535) % 65536]

\* CPU::op_pop
op_pop(s) ==
    LET low == cpu_read(s, s.sp)
        s1 == [s EXCEPT !.sp = (@ + 1) % 65536]
        high == cpu_read(s1, s1.sp)
        s2 == [s1 EXCEPT !.sp = (@ + 1) % 65536]
    IN [s |-> s2, value |-> assemble(high, low)]

\* CPU::handle_interrupts, one pass of the for loop over bit i
service(s, i) ==
    IF ~Bit(s.flag, i) THEN s
    ELSE LET s1 == [s EXCEPT !.flag = ClearBit(@, i),
                             !.interrupts_enabled = FALSE]
             s2 == op_push(s1, s1.pc)
         IN [s2 EXCEPT !.pc = VECTOR_BASE + i * VECTOR_STEP, !.halt = FALSE]

\* CPU::handle_interrupts, the for loop over 0..=4
dispatch(s) == service(service(service(service(service(s, 0), 1), 2), 3), 4)

\* handle_interrupts waking from halt only for an interrupt enabled in IE
handle_interrupts_enabled_only(s) ==
    LET has_interrupt == BitAnd(s.enable, s.flag) > 0
    IN IF ~s.interrupts_enabled \/ ~has_interrupt
       THEN IF ~s.interrupts_enabled /\ has_interrupt /\ s.halt
            THEN [s |-> [s EXCEPT !.halt = FALSE], t |-> HALT_CYCLES]
            ELSE [s |-> s, t |-> None]
       ELSE [s |-> dispatch(s), t |-> INTERRUPT_CYCLES]

\* CPU::handle_interrupts: the machine after it and the timing it returns
handle_interrupts(s) ==
    LET has_interrupt == BitAnd(s.enable, s.flag) > 0
    IN IF ~s.interrupts_enabled \/ ~has_interrupt
       THEN IF ~s.interrupts_enabled /\ s.flag > 0 /\ s.halt
            THEN [s |-> [s EXCEPT !.halt = FALSE], t |-> HALT_CYCLES]
            ELSE [s |-> s, t |-> None]
       ELSE [s |-> dispatch(s), t |-> INTERRUPT_CYCLES]

\* CPU::read_pc, the program counter after n bytes were fetched
read_pc(s, n) == [s EXCEPT !.pc = (@ + n) % 65536]

\* CPU::op_jr, the operand byte b1 being what read_pc finds
op_jr(s, jump, b1) ==
    LET s1 == read_pc(s, 1)
    IN IF jump THEN [s |-> [s1 EXCEPT !.pc = (@ + b1) % 65536], t |-> 12]
       ELSE [s |-> s1, t |-> 8]

\* CPU::op_inc: the machine after it and the value it returns
op_inc(s, value) ==
    LET v == (value + 1) % 256
    IN [s |-> [s EXCEPT !.regs.f.add_sub = FALSE,
                        !.regs.f.half_carry = (value % 16 = 15),
                        !.regs.f.zero = (v = 0)],
        value |-> v]

\* CPU::op_rl: the machine after it and the value it returns
op_rl(s, value) ==
    LET v == ((value * 2) % 256) + (value \div 128)
    IN [s |-> [s EXCEPT !.regs.f.carry = (value >= 128),
                        !.regs.f.zero = (v = 0),
                        !.regs.f.add_sub = FALSE,
                        !.regs.f.half_carry = FALSE],
        value |-> v]

\* CPU::op_add_hl
op_add_hl(s, word) ==
    LET sum == hl(s) + word
        s1 == [s EXCEPT !.regs.f.add_sub = FALSE,
                        !.regs.f.carry = (sum > 65535),
                        !.regs.f.half_carry =
                            (extract(hl(s))[2] + extract(word)[2] > 255)]
    IN set_hl(s1, sum % 65536)

\* CPU::op_or
op_or(s, value) ==
    LET v == BitOr(s.a, value)
    IN [s EXCEPT !.a = v, !.regs.f.zero = (v = 0), !.regs.f.add_sub = FALSE,
                 !.regs.f.half_carry = FALSE, !.regs.f.carry = FALSE]

\* CPU::handle_op 0xea, LD (a16),A
op_ld_a16_a(s, b1, b2) ==
    The({cpu_write(s2, assemble(b2, b1), s2.a) :
           s2 \in {advance_timer(read_pc(advance_timer(read_pc(s, 1), 4), 1),
                                  4)}})

\* CPU::handle_op 0x34, INC (HL)
op_inc_hl(s) ==
    The({cpu_write(r.s, hl(r.s), r.value) :
           r \in {op_inc(advance_timer(s, 4), cpu_read(s, hl(s)))}})

\* CPU::handle_op_cb 0x06, on (HL)
op_cb_rl_hl(s) ==
    The({cpu_write(r.s, hl(r.s), r.value) :
           r \in {op_rl(advance_timer(s1, 4), cpu_read(s1, hl(s1))) :
                    s1 \in {advance_timer(s, 4)}}})

\* the instructions of CPU::handle_op the model executes, as the bytes
\* <<opcode, operand 1, operand 2>> fetched: NOP, HALT, DI, EI,
\* LDH (0x0F),A, LDH (0xFF),A, LDH (0x40),A, LD SP,0xFFFE, LD A,0x05
Instructions ==
    {<<0, 0, 0>>, <<118, 0, 0>>, <<243, 0, 0>>, <<251, 0, 0>>,
     <<224, 15, 0>>, <<224, 255, 0>>, <<224, 64, 0>>,
     <<49, 254, 255>>, <<62, 5, 0>>}

\* CPU::handle_instruction and CPU::handle_op for the opcode op fetched at
\* pc, followed in the instruction stream by the bytes b1, b2
handle_instruction(s, op, b1, b2) ==
    LET s0 == read_pc(s, 1)
    IN CASE op = 0 -> [s |-> s0, t |-> 4]
         [] op = 118 -> [s |-> [s0 EXCEPT !.halt = TRUE], t |-> 4]
         [] op = 243 -> [s |-> [s0 EXCEPT !.interrupts_enabled = FALSE], t |-> 4]
         [] op = 251 -> [s |-> [s0 EXCEPT !.interrupts_enabled = TRUE], t |-> 4]
         [] op = 224 -> LET s1 == read_pc(advance_timer(s0, 4), 1)
                        IN [s |-> cpu_write(s1, 65280 + b1, s1.a), t |-> 8]
         [] op = 49 -> [s |-> [read_pc(s0, 2) EXCEPT !.sp = assemble(b2, b1)],
                        t |-> 12]
         [] op = 62 -> [s |-> [read_pc(s0, 1) EXCEPT !.a = b1], t |-> 8]
         [] op = 195 -> [s |-> [read_pc(s0, 2) EXCEPT !.pc = assemble(b2, b1)],
                         t |-> 16]
         [] op = 1 -> [s |-> set_bc(read_pc(s0, 2), assemble(b2, b1)), t |-> 12]
         [] op = 17 -> [s |-> set_de(read_pc(s0, 2), assemble(b2, b1)), t |-> 12]
         [] op = 33 -> [s |-> set_hl(read_pc(s0, 2), assemble(b2, b1)), t |-> 12]
         [] op = 6 -> [s |-> [read_pc(s0, 1) EXCEPT !.regs.b = b1], t |-> 8]
         [] op = 14 -> [s |-> [read_pc(s0, 1) EXCEPT !.regs.c = b1], t |-> 8]
         [] op = 193 -> LET r == op_pop(s0)
                        IN [s |-> set_bc(r.s, r.value), t |-> 12]
         [] op = 209 -> LET r == op_pop(s0)
                        IN [s |-> set_de(r.s, r.value), t |-> 12]
         [] op = 225 -> LET r == op_pop(s0)
                        IN [s |-> set_hl(r.s, r.value), t |-> 12]
         [] op = 241 -> LET r == op_pop(s0)
                        IN [s |-> set_af(r.s, r.value), t |-> 12]
         [] op = 197 -> [s |-> op_push(s0, bc(s0)), t |-> 16]
         [] op = 213 -> [s |-> op_push(s0, de(s0)), t |-> 16]
         [] op = 229 -> [s |-> op_push(s0, hl(s0)), t |-> 16]
         [] op = 245 -> [s |-> op_push(s0, af(s0)), t |-> 16]
         [] op = 2 -> [s |-> mem_write(s0, bc(s0), s0.a), t |-> 8]
         [] op = 18 -> [s |-> mem_write(s0, de(s0), s0.a), t |-> 8]
         [] op = 34 -> LET s1 == mem_write(s0, hl(s0), s0.a)
                       IN [s |-> set_hl(s1, (hl(s1) + 1) % 65536), t |-> 8]
         [] op = 50 -> LET s1 == mem_write(s0, hl(s0), s0.a)
                       IN [s |-> set_hl(s1, (hl(s1) + 65535) % 65536), t |-> 8]
         [] op = 112 -> [s |-> cpu_write(s0, hl(s0), s0.regs.b), t |-> 8]
         [] op = 119 -> [s |-> cpu_write(s0, hl(s0), s0.a), t |-> 8]
         [] op = 226 -> [s |-> cpu_write(s0, 65280 + s0.regs.c, s0.a), t |-> 8]
         [] op = 234 -> [s |-> op_ld_a16_a(s0, b1, b2), t |-> 8]
         [] op = 4 -> LET r == op_inc(s0, s0.regs.b)
                      IN [s |-> [r.s EXCEPT !.regs.b = r.value], t |-> 4]
         [] op = 20 -> LET r == op_inc(s0, s0.regs.d)
                       IN [s |-> [r.s EXCEPT !.regs.d = r.value], t |-> 4]
         [] op = 36 -> LET r == op_inc(s0, s0.regs.h)
                       IN [s |-> [r.s EXCEPT !.regs.h = r.value], t |-> 4]
         [] op = 12 -> LET r == op_inc(s0, s0.regs.c)
                       IN [s |-> [r.s EXCEPT !.regs.c = r.value], t |-> 4]
         [] op = 28 -> LET r == op_inc(s0, s0.regs.e)
                       IN [s |-> [r.s EXCEPT !.regs.c = r.value], t |-> 4]
         [] op = 44 -> LET r == op_inc(s0, s0.regs.l)
                       IN [s |-> [r.s EXCEPT !.regs.c = r.value], t |-> 4]
         [] op = 60 -> LET r == op_inc(s0, s0.a)
                       IN [s |-> [r.s EXCEPT !.regs.c = r.value], t |-> 4]
         [] op = 52 -> [s |-> op_inc_hl(s0), t |-> 8]
         [] op = 183 -> [s |-> op_or(s0, s0.a), t |-> 4]
         [] op = 24 -> op_jr(s0, TRUE, b1)
         [] op = 32 -> op_jr(s0, ~s0.regs.f.zero, b1)
         [] op = 40 -> op_jr(s0, s0.regs.f.zero, b1)
         [] op = 48 -> op_jr(s0, ~s0.regs.f.carry, b1)
         [] op = 56 -> op_jr(s0, s0.regs.f.carry, b1)
         [] op = 9 -> [s |-> op_add_hl(s0, bc(s0)), t |-> 8]
         [] op = 25 -> [s |-> op_add_hl(s0, de(s0)), t |-> 8]
         [] op = 41 -> [s |-> op_add_hl(s0, hl(s0)), t |-> 8]
         [] op = 57 -> [s |-> op_add_hl(s0, s0.sp), t |-> 8]
         [] op = 203 /\ b1 = 6 -> [s |-> op_cb_rl_hl(read_pc(s0, 1)), t |-> 8]

\* ----------------------------------------------------------------- joypad
\* press latching the interrupt for a button that is already held
press_always(j, button) ==
    [j EXCEPT !.buttons[button] = TRUE, !.interrupts = TRUE]

\* Joypad::press
press(j, button) ==
    IF ~j.buttons[button]
    THEN [j EXCEPT !.buttons[button] = TRUE, !.interrupts = TRUE]
    ELSE j

\* Joypad::release
release(j, button) == [j EXCEPT !.buttons[button] = FALSE]

\* Joypad::select
select(j, fl) ==
    LET sel == BitAnd(fl, 48)
    IN [j EXCEPT !.selection = CASE sel = 16 -> "Buttons"
                                 [] sel = 32 -> "Direction"
                                 [] OTHER -> "None",
                 !.flag = BitAnd(j.flag, 207) + sel]

\* Joypad::value, one bit of the nibble: set when the button is not pressed
released_bit(j, button, bit) == IF ~j.buttons[button] THEN bit ELSE 0

\* Joypad::value
joypad_value(j) ==
    BitAnd(j.flag, 240)
    + CASE j.selection = "Direction" ->
               released_bit(j, "Right", 1) + released_bit(j, "Left", 2)
               + released_bit(j, "Up", 4) + released_bit(j, "Down", 8)
        [] j.selection = "Buttons" ->
               released_bit(j, "A", 1) + released_bit(j, "B", 2)
               + released_bit(j, "Select", 4) + released_bit(j, "Start", 8)
        [] OTHER -> BitAnd(j.flag, 15)

\* Joypad::check_interrupts: the joypad after it and what it returns
check_interrupts(j) == [j |-> [j EXCEPT !.interrupts = FALSE], i |-> j.interrupts]

\* CPU::step as a whole, the opcode op and the bytes b1, b2 being what a
\* fetch would find at pc
cpu_step(s, op, b1, b2) ==
    LET r == handle_interrupts(s)
        q == IF r.t # None THEN r
             ELSE IF ~r.s.halt THEN handle_instruction(r.s, op, b1, b2)
             ELSE [s |-> r.s, t |-> HALT_CYCLES]
    IN advance([advance_timer(q.s, q.t) EXCEPT !.timing = q.t], q.t)

\* ---------------------------------------------------------------- actions
\* one call of LCD::advance by the owner of the LCD
LcdAdvance(t) ==
    /\ pos = "interrupts"
    /\ SetMachine(advance(Machine, t))

\* LCD::handle_write 0xff40
WriteLCDC(value) ==
    /\ pos = "interrupts"
    /\ SetMachine(handle_write(Machine, 65344, value))

\* LCD::handle_write 0xff41
WriteSTAT(value) ==
    /\ pos = "interrupts"
    /\ SetMachine(handle_write(Machine, 65345, value))

\* LCD::handle_write 0xff44
WriteLY(value) ==
    /\ pos = "interrupts"
    /\ SetMachine(handle_write(Machine, 65348, value))

\* LCD::handle_write 0xff45
WriteLYC(value) ==
    /\ pos = "interrupts"
    /\ SetMachine(handle_write(Machine, 65349, value))

\* LCD::handle_write 0xff46: the OAM DMA
WriteDMA(value) ==
    /\ pos = "interrupts"
    /\ SetMachine(handle_write(Machine, 65350, value))

\* LCD::handle_write 0xff51..=0xff55: the VRAM DMA registers.  The guest
\* programs a transfer before the LCD runs; later it only stores 0 to 0xff55
WriteHDMA(address, value) ==
    /\ pos = "interrupts"
    /\ cycles = 0 \/ (address = 65365 /\ value = 0)
    /\ SetMachine(handle_write(Machine, address, value))

\* LCD::handle_read 0xff51..=0xff55
ReadHDMA(address) ==
    /\ pos = "interrupts"
    /\ SetMachine([Machine EXCEPT !.bus = handle_read(Machine, address)])

\* LCD::advance, the clocks since power-on counted and capped
LcdRun(t) ==
    /\ pos = "interrupts"
    /\ cycles + t <= MaxLcdCycles
    /\ SetCore(advance(Machine, t))
    /\ cycles' = cycles + t
    /\ UNCHANGED <<joypad, subtimer, returned, busVars>>

\* LCD::advance, the clocks since the display was switched on counted and
\* capped
LcdFeed(t) ==
    /\ pos = "interrupts"
    /\ cycles + t <= MaxFrameCycles
    /\ SetCore(advance(Machine, t))
    /\ cycles' = cycles + t
    /\ UNCHANGED <<joypad, subtimer, returned, busVars>>

\* LCD::handle_write 0x8000..=0x9fff
WriteVRAM(address, value) ==
    /\ pos = "interrupts"
    /\ SetMachine(handle_write(Machine, address, value))

\* LCD::handle_write 0xfe00..=0xfe9f
WriteOAM(address, value) ==
    /\ pos = "interrupts"
    /\ SetMachine(handle_write(Machine, address, value))

\* LCD::handle_read of a VRAM or OAM cell
ReadLCD(address) ==
    /\ pos = "interrupts"
    /\ SetMachine([Machine EXCEPT !.bus = handle_read(Machine, address)])

\* CPU::write 0xff0f
WriteIF(value) ==
    /\ pos = "interrupts"
    /\ SetMachine(cpu_write(Machine, 65295, value))

\* the front end presses a button between two CPU steps
Press(button) ==
    /\ pos = "interrupts"
    /\ joypad' = press(joypad, button)
    /\ UNCHANGED <<lcdVars, cpuVars, timerVars, stepVars, subtimer, returned,
                   cycles,
                 busVars>>

\* the front end releases a button between two CPU steps
Release(button) ==
    /\ pos = "interrupts"
    /\ joypad' = release(joypad, button)
    /\ UNCHANGED <<lcdVars, cpuVars, timerVars, stepVars, subtimer, returned,
                   cycles,
                 busVars>>

\* a store of fl to the joypad register
Select(fl) ==
    /\ pos = "interrupts"
    /\ joypad' = select(joypad, fl)
    /\ UNCHANGED <<lcdVars, cpuVars, timerVars, stepVars, subtimer, returned,
                   cycles,
                 busVars>>

\* a load from the joypad register
ReadJoypad ==
    /\ pos = "interrupts"
    /\ bus' = joypad_value(joypad)
    /\ UNCHANGED <<lcdVars, cpuVars, timerVars, pos, timing, steps, auxVars,
                   busVars>>

\* one poll of the joypad latch
CheckInterrupts ==
    /\ pos = "interrupts"
    /\ LET r == check_interrupts(joypad)
       IN joypad' = r.j /\ returned' = r.i
    /\ UNCHANGED <<lcdVars, cpuVars, timerVars, stepVars, subtimer, cycles,
                 busVars>>

\* a store to TAC (0xff07) before any clock was fed
WriteTAC(value) ==
    /\ pos = "interrupts"
    /\ cycles = 0
    /\ SetMachine(cpu_write(Machine, 65287, value))

\* a store to DIV (0xff04)
WriteDIV(value) ==
    /\ pos = "interrupts"
    /\ SetMachine(cpu_write(Machine, 65284, value))

\* CPU::advance_timer fed t clocks
FeedTimer(t) ==
    /\ pos = "interrupts"
    /\ cycles + t <= MaxCycles
    /\ SetCore(advance_timer(Machine, t))
    /\ cycles' = cycles + t
    /\ UNCHANGED <<joypad, subtimer, returned,
                 busVars>>

\* SubTimer::inc on the SubTimer on its own
Inc(t) ==
    /\ pos = "interrupts"
    /\ LET r == inc(subtimer, t)
       IN subtimer' = r.st /\ returned' = r.overflow
    /\ UNCHANGED <<lcdVars, cpuVars, timerVars, stepVars, joypad, cycles,
                 busVars>>

\* SubTimer::set_timer on the SubTimer on its own
SetTimer(v) ==
    /\ pos = "interrupts"
    /\ subtimer' = set_timer(subtimer, v)
    /\ UNCHANGED <<lcdVars, cpuVars, timerVars, stepVars, joypad, returned,
                   cycles,
                 busVars>>

\* SubTimer::set_rate on the SubTimer on its own
SetRate(r) ==
    /\ pos = "interrupts"
    /\ subtimer' = set_rate(subtimer, r)
    /\ UNCHANGED <<lcdVars, cpuVars, timerVars, stepVars, joypad, returned,
                   cycles,
                 busVars>>

\* CPU::step up to the choice between dispatch, instruction and halt idle
StepInterrupts ==
    /\ pos = "interrupts"
    /\ steps < MaxSteps
    /\ LET r == handle_interrupts(Machine)
       IN SetMachine(IF r.t # None
                     THEN [r.s EXCEPT !.timing = r.t, !.pos = "timer"]
                     ELSE IF ~r.s.halt
                          THEN [r.s EXCEPT !.pos = "instruction"]
                          ELSE [r.s EXCEPT !.timing = HALT_CYCLES,
                                           !.pos = "timer"])

\* CPU::step, handle_instruction
StepInstruction(op, b1, b2) ==
    /\ pos = "instruction"
    /\ LET r == handle_instruction(Machine, op, b1, b2)
       IN SetMachine([r.s EXCEPT !.timing = r.t, !.pos = "timer"])

\* CPU::step, advance_timer
StepTimer ==
    /\ pos = "timer"
    /\ SetMachine([advance_timer(Machine, timing) EXCEPT !.pos = "lcd"])

\* CPU::step, lcd.advance
StepLcd ==
    /\ pos = "lcd"
    /\ SetMachine([advance(Machine, timing) EXCEPT !.pos = "interrupts",
                                                   !.steps = @ + 1])

\* bytes::extract applied to conv.value
Extract ==
    /\ conv' = [conv EXCEPT !.high = extract(conv.value)[1],
                            !.low = extract(conv.value)[2]]
    /\ UNCHANGED <<lcdVars, cpuVars, timerVars, stepVars, auxVars,
                   mbc1, boot, mbc2, out, loadVars>>

\* bytes::assemble applied to conv.high, conv.low
Assemble ==
    /\ conv' = [conv EXCEPT !.value = assemble(conv.high, conv.low)]
    /\ UNCHANGED <<lcdVars, cpuVars, timerVars, stepVars, auxVars,
                   mbc1, boot, mbc2, out, loadVars>>

\* MBC::write sent to the bare MBC1 and to the Boot wrapper
CartWrite(address, value) ==
    /\ mbc1' = mbc1_write(mbc1, address, value)
    /\ boot' = boot_write(boot, address, value)
    /\ UNCHANGED <<lcdVars, cpuVars, timerVars, stepVars, auxVars, conv, mbc2,
                   out, loadVars>>

\* MBC::read sent to the bare MBC1 and to the Boot wrapper
CartRead(address) ==
    /\ out' = [bare |-> mbc1_read(mbc1, address),
               boot |-> boot_read(boot, address)]
    /\ UNCHANGED <<lcdVars, cpuVars, timerVars, stepVars, auxVars, conv,
                   mbc1, boot, mbc2, loadVars>>

\* MBC::write and MBC::read on the MBC2
Mbc2Write(address, value) ==
    /\ mbc2' = mbc2_write(mbc2, address, value)
    /\ UNCHANGED <<lcdVars, cpuVars, timerVars, stepVars, auxVars, conv, mbc1,
                   boot, out, loadVars>>

Mbc2Read(address) ==
    /\ out' = [out EXCEPT !.bare = mbc2_read(mbc2, address)]
    /\ UNCHANGED <<lcdVars, cpuVars, timerVars, stepVars, auxVars, conv, mbc1,
                   boot, mbc2, loadVars>>

\* CPU::write and CPU::read of any address
BusWrite(address, value) == SetMachine(cpu_write(Machine, address, value))

BusRead(address) ==
    SetMachine([Machine EXCEPT !.bus = cpu_read(Machine, address)])

\* CPU::handle_instruction on its own: one instruction executed, its cycles
\* returned
Execute(op, b1, b2) ==
    /\ pos = "interrupts"
    /\ ~memory.aborted
    /\ LET r == handle_instruction(Machine, op, b1, b2)
       IN /\ cycles + r.t <= MaxOpCycles
          /\ SetCore([r.s EXCEPT !.timing = r.t])
          /\ cycles' = cycles + r.t
    /\ UNCHANGED <<joypad, subtimer, returned,
                 busVars>>

\* CPU::step in one piece, for runs of any length (steps is not counted)
RunStep(op, b1, b2) ==
    /\ pos = "interrupts"
    /\ SetMachine(cpu_step(Machine, op, b1, b2))

\* ------------------------------------------------------------ start states
\* LCD::new
InitLcd ==
    /\ display_enable = FALSE
    /\ enabled = FALSE
    /\ mode = "OAM"
    /\ ly = 0
    /\ mode_timing = 0
    /\ lyc = 0
    /\ lyc_equals_lc = FALSE
    /\ mode_2_oam = FALSE
    /\ mode_1_vblank = FALSE
    /\ mode_0_hblank = FALSE
    /\ coincidence = FALSE
    /\ oam_access = TRUE
    /\ vram_access = TRUE
    /\ done_frame = FALSE
    /\ video = [x \in VideoAddrs |-> 0]
    /\ video_bank = 0
    /\ oam = [x \in OamAddrs |-> 0]
    /\ drawn_line = NoLine
    /\ hdma_type = "None"
    /\ hdma_transfer = 0
    /\ dma_source = 0
    /\ dma_dest = 0

\* Registers::default (without a) and Flags::default
\* tracked work RAM cells: offset 0x000 of bank 0 and offset 0xDFF of the
\* switched banks 1, 2, 7
WorkCells == {0, 7679, 11775, 32255}

\* Memory::new: no boot ROM, the cartridge of Cartridge::new
MemoryNew ==
    [booting |-> FALSE, rom_ram_mode |-> 0, rom_bank |-> 1,
     work_ram_bank |-> 1, external_ram_bank |-> 0,
     external_ram_enabled |-> FALSE, controller |-> "None",
     work_ram |-> [x \in WorkCells |-> 0], aborted |-> FALSE]

\* Memory::with_bootrom
with_bootrom(m) == [m EXCEPT !.booting = TRUE]

RegistersDefault ==
    [b |-> 0, c |-> 0, d |-> 0, e |-> 0, h |-> 0, l |-> 0,
     f |-> [zero |-> FALSE, carry |-> FALSE, add_sub |-> FALSE,
            half_carry |-> FALSE]]

\* enum Button
Buttons == {"Up", "Down", "Left", "Right", "A", "B", "Start", "Select"}

\* Joypad::new
JoypadNew ==
    [selection |-> "None", buttons |-> [b \in Buttons |-> FALSE],
     flag |-> 255, interrupts |-> FALSE]

\* SubTimer::new
SubTimerNew(r) == [timer |-> 0, value |-> 0, rate |-> r]

\* Joypad::new; SubTimer::new(16) as in timer.rs's test; nothing returned and
\* no clock fed yet
InitAux ==
    /\ joypad = JoypadNew
    /\ subtimer = SubTimerNew(16)
    /\ returned = FALSE
    /\ cycles = 0

\* no conversion made yet
ConvNew == [value |-> 0, high |-> 0, low |-> 0]

\* tracked cells of the controllers' RAM
CartRamCells == {0}

\* MBC1::new
Mbc1New ==
    [rom_bank |-> 1, rom_ram_mode |-> 0, ram_enabled |-> FALSE,
     ram_bank |-> 0, ram |-> [x \in CartRamCells |-> 0]]

\* Boot::with_mbc
BootWithMbc(m) == [mbc |-> m]

\* the first and the last cell of the MBC2's 512 half bytes
Mbc2Cells == {0, 511}

\* MBC2::new, no save file
Mbc2New ==
    [rom_bank |-> 1, ram_enabled |-> FALSE, ram |-> [x \in Mbc2Cells |-> 0]]

\* Cartridge::new; no call of with_data made yet
CartridgeNew ==
    [data |-> EmptyRom, result |-> "none", cartridge |-> None]

\* the tracked cells of the controllers' RAM (indexes into `ram`): the
\* first cell of banks 0 and 1 of the MBC3 and of banks 0, 1 and 8 of the
\* MBC5
Mbc3Cells == {0, 4096}
Mbc5Cells == {0, 8192, 65536}

\* MBC3::new
Mbc3New ==
    [rom_bank |-> 1, ram_enabled |-> FALSE, ram_bank |-> 0,
     ram |-> [x \in Mbc3Cells |-> 0], rtc |-> [x \in 0 .. 4 |-> 0]]

\* MBC5::new
Mbc5New ==
    [rom_bank |-> 1, ram_enabled |-> FALSE, ram_bank |-> 0,
     ram |-> [x \in Mbc5Cells |-> 0]]

InitLoad ==
    /\ cart = CartridgeNew
    /\ mbc3 = Mbc3New
    /\ mbc5 = Mbc5New

InitBus ==
    /\ conv = ConvNew
    /\ mbc2 = Mbc2New
    /\ mbc1 = Mbc1New
    /\ boot = BootWithMbc(Mbc1New)
    /\ out = [bare |-> 0, boot |-> 0]
    /\ InitLoad

\* CPU::new, Interrupts::default, Memory::new
InitCpu ==
    /\ interrupts_enabled = FALSE
    /\ enable = 0
    /\ flag = 0
    /\ halt = FALSE
    /\ sp = 0
    /\ pc = 0
    /\ a = 0
    /\ ram = [x \in RamAddrs |-> 0]
    /\ regs = RegistersDefault
    /\ memory = MemoryNew

\* Timer::new
InitTimer ==
    /\ div = [timer |-> 0, value |-> 0, rate |-> rate(3)]
    /\ tima = [timer |-> 0, value |-> 0, rate |-> rate(0)]
    /\ tma = 0
    /\ tac = [start |-> FALSE, clock |-> 0]

InitStep ==
    /\ pos = "interrupts"
    /\ timing = 0
    /\ steps = 0
    /\ bus = 255

\* the machine as constructed
Init == InitLcd /\ InitCpu /\ InitTimer /\ InitStep /\ InitAux /\ InitBus

\* ---------------------------------------------------------- specifications
\* the LCD mode machine driven by advances, with the display switched on
\* and off, LY written and IF acknowledged by the guest
Next ==
    \/ \E t \in Timings : LcdAdvance(t)
    \/ \E v \in LcdcValues : WriteLCDC(v)
    \/ \E v \in ByteValues : WriteLY(v)
    \/ WriteIF(0)

Spec == Init /\ [][Next]_vars

\* the same with guest writes to the STAT enable bits
NextStat ==
    \/ \E t \in Timings : LcdAdvance(t)
    \/ \E v \in LcdcValues : WriteLCDC(v)
    \/ \E v \in StatValues : WriteSTAT(v)
    \/ WriteIF(0)

SpecStat == Init /\ [][NextStat]_vars

\* the same with guest writes to LYC and to the LYC enable bit of STAT
NextLyc ==
    \/ \E t \in Timings : LcdAdvance(t)
    \/ \E v \in LcdcValues : WriteLCDC(v)
    \/ \E v \in LycStatValues : WriteSTAT(v)
    \/ \E v \in LycValues : WriteLYC(v)
    \/ WriteIF(0)

SpecLyc == Init /\ [][NextLyc]_vars

\* the LCD driven by advances, with guest reads and writes of VRAM and OAM
NextAccess ==
    \/ \E t \in Timings : LcdAdvance(t)
    \/ \E v \in LcdcValues : WriteLCDC(v)
    \/ \E x \in GuestVideoAddrs, v \in CellValues : WriteVRAM(x, v)
    \/ \E x \in GuestOamAddrs, v \in CellValues : WriteOAM(x, v)
    \/ \E x \in GuestVideoAddrs \cup GuestOamAddrs : ReadLCD(x)

SpecAccess == Init /\ [][NextAccess]_vars

\* a machine met in the middle of a run: the LCD 4 clocks before the end of
\* the HBlank of line 143 or as constructed, the timer 4 clocks before TIMA
\* overflows or as constructed, the interrupt registers as the guest left them
InitRunning ==
    /\ \/ InitLcd
       \/ /\ display_enable = TRUE
          /\ enabled = TRUE
          /\ mode = "HBlank"
          /\ ly = 143
          /\ mode_timing = 200
          /\ lyc = 0
          /\ lyc_equals_lc = FALSE
          /\ mode_2_oam = FALSE
          /\ mode_1_vblank \in BOOLEAN
          /\ mode_0_hblank = FALSE
          /\ coincidence = FALSE
          /\ oam_access = TRUE
          /\ vram_access = TRUE
          /\ done_frame = FALSE
          /\ video = [x \in VideoAddrs |-> 0]
          /\ video_bank = 0
          /\ oam = [x \in OamAddrs |-> 0]
          /\ drawn_line = NoLine
          /\ hdma_type = "None"
          /\ hdma_transfer = 0
          /\ dma_source = 0
          /\ dma_dest = 0
    /\ \/ InitTimer
       \/ /\ div = [timer |-> 16, value |-> 7, rate |-> rate(3)]
          /\ tima = [timer |-> 16, value |-> 255, rate |-> rate(1)]
          /\ tma = 128
          /\ tac = [start |-> TRUE, clock |-> 1]
    /\ interrupts_enabled \in BOOLEAN
    /\ enable \in IeValues
    /\ flag \in IfValues
    /\ halt \in BOOLEAN
    /\ sp = 65534
    /\ pc = 336
    /\ a \in {0, 1}
    /\ ram = [x \in RamAddrs |-> 0]
    /\ regs = RegistersDefault
    /\ memory = MemoryNew
    /\ InitStep
    /\ InitAux
    /\ InitBus

\* the CPU stepping from the constructed machine or from one in mid-run
InitCpuRun == Init \/ InitRunning

NextCpu ==
    \/ StepInterrupts
    \/ \E i \in Instructions : StepInstruction(i[1], i[2], i[3])
    \/ StepTimer
    \/ StepLcd

SpecCpu == InitCpuRun /\ [][NextCpu]_vars

\* the buttons pressed while the CPU steps
PressButtons == {"A"}

\* the CPU stepping while the front end presses buttons
NextPress ==
    \/ NextCpu
    \/ \E button \in PressButtons : Press(button)

SpecPress == InitCpuRun /\ [][NextPress]_vars

\* the program a frame is awaited under, as the bytes a fetch finds at
\* address p: 0x0000 LDH (0x04),A; 0x0002 JP 0x0000
FrameFetch(p) == IF p = 0 THEN <<224, 4, 0>> ELSE <<195, 0, 0>>

\* the constructed machine stepped for ever, every step eventually taken
NextFrame == RunStep(FrameFetch(pc)[1], FrameFetch(pc)[2], FrameFetch(pc)[3])

SpecFrame == Init /\ [][NextFrame]_vars /\ WF_vars(NextFrame)

\* the sizes of the chunks the timer is fed in
Chunks == {4, 20, 1024}
\* TAC as the guest sets it: started, clock 0 or clock 1
TacValues == {4, 5}

\* the timer on its own: TAC set on the fresh timer, then clocks and DIV stores
NextTimer ==
    \/ \E v \in TacValues : WriteTAC(v)
    \/ \E v \in ByteValues : WriteDIV(v)
    \/ \E t \in Chunks : FeedTimer(t)

SpecTimer == Init /\ [][NextTimer]_vars

\* what timer.rs's test feeds its SubTimer, and a little more
IncValues == {2, 4, 8, 16, 32}
SetTimerValues == {0, 250}
Rates == {16, 4, 1}

\* a SubTimer on its own
NextSubTimer ==
    \/ \E t \in IncValues : Inc(t)
    \/ \E v \in SetTimerValues : SetTimer(v)
    \/ \E r \in Rates : SetRate(r)

SpecSubTimer == Init /\ [][NextSubTimer]_vars

\* the buttons the front end uses, two of each group, and the bytes stored
\* to the joypad register
PadButtons == {"A", "Start", "Right", "Down"}
SelectValues == {0, 16, 32, 48, 239}

\* the joypad on its own
NextJoypad ==
    \/ \E button \in PadButtons : Press(button)
    \/ \E button \in PadButtons : Release(button)
    \/ \E fl \in SelectValues : Select(fl)
    \/ ReadJoypad
    \/ CheckInterrupts

SpecJoypad == Init /\ [][NextJoypad]_vars

\* loads, pushes and pops: LD SP,0xFFFE; LD B,0x12; LD C,0x34; LD A,0xAB;
\* LD BC/DE/HL,0x1234; PUSH and POP of BC, DE, HL, AF
RegInstructions ==
    {<<49, 254, 255>>, <<6, 18, 0>>, <<14, 52, 0>>, <<62, 171, 0>>,
     <<1, 52, 18>>, <<17, 52, 18>>, <<33, 52, 18>>,
     <<197, 0, 0>>, <<213, 0, 0>>, <<229, 0, 0>>, <<245, 0, 0>>,
     <<193, 0, 0>>, <<209, 0, 0>>, <<225, 0, 0>>, <<241, 0, 0>>}

NextRegs == \E ins \in RegInstructions : Execute(ins[1], ins[2], ins[3])

SpecRegs == Init /\ [][NextRegs]_vars

\* every u16 and every u8
Words == 0 .. 65535
Bytes == 0 .. 255

\* the byte helpers on every input: a word to extract, or two bytes to
\* assemble
InitBytes ==
    /\ InitLcd /\ InitCpu /\ InitTimer /\ InitStep /\ InitAux
    /\ mbc2 = Mbc2New
    /\ mbc1 = Mbc1New
    /\ boot = BootWithMbc(Mbc1New)
    /\ out = [bare |-> 0, boot |-> 0]
    /\ InitLoad
    /\ \/ \E v \in Words : conv = [value |-> v, high |-> 0, low |-> 0]
       \/ \E h \in Bytes, l \in Bytes : conv = [value |-> 0, high |-> h, low |-> l]

NextBytes == Extract \/ Assemble

SpecBytes == InitBytes /\ [][NextBytes]_vars

\* CPU::new over a Memory built without or with a boot ROM (main.rs), then
\* instructions
InitNew ==
    /\ InitLcd /\ InitTimer /\ InitStep /\ InitAux /\ InitBus
    /\ interrupts_enabled = FALSE
    /\ enable = 0
    /\ flag = 0
    /\ halt = FALSE
    /\ sp = 0
    /\ pc = 0
    /\ a = 0
    /\ ram = [x \in RamAddrs |-> 0]
    /\ regs = RegistersDefault
    /\ memory \in {MemoryNew, with_bootrom(MemoryNew)}

SpecNew == InitNew /\ [][NextRegs]_vars

\* controller registers (RAM enable, ROM bank, upper bits, mode) and the
\* first RAM cell; the bytes a guest stores there
CartWriteAddrs == {0, 8192, 16384, 24576, 40960}
CartValues == {0, 1, 2, 10, 16}
\* boot ROM, cartridge header, fixed bank, switched bank, RAM
CartReadAddrs == {0, 255, 256, 335, 336, 16384, 16385, 40960}

NextCart ==
    \/ \E address \in CartWriteAddrs, value \in CartValues :
         CartWrite(address, value)
    \/ \E address \in CartReadAddrs : CartRead(address)

SpecCart == Init /\ [][NextCart]_vars

\* RAM enable toggle (bit 8 of the address clear) and not, ROM bank select
\* and not, the first and last RAM cells
Mbc2WriteAddrs == {0, 256, 8192, 8448, 40960, 41471}
Mbc2RamAddrs == {40960, 41471}
Mbc2Values == {0, 3, 171, 255}
Mbc2ReadAddrs == {0, 16384, 40960, 41471}

NextMbc2 ==
    \/ \E address \in Mbc2WriteAddrs, value \in Mbc2Values :
         Mbc2Write(address, value)
    \/ \E address \in Mbc2ReadAddrs : Mbc2Read(address)

SpecMbc2 == Init /\ [][NextMbc2]_vars

\* work RAM and its echo (first and last echoed address), the work RAM bank
\* register 0xff70, the boot register 0xff50; the boot ROM's first and last
\* byte
EchoAddrs == {57344, 65023}
MemWriteAddrs == {49152, 57344, 56831, 65023, 65392, 65360}
MemValues == {0, 2, 7, 170}
MemReadAddrs == {0, 255, 49152, 57344, 56831, 65023, 65392}

\* a CPU over a Memory built with a boot ROM
InitMemory ==
    /\ InitLcd /\ InitTimer /\ InitStep /\ InitAux /\ InitBus
    /\ interrupts_enabled = FALSE
    /\ enable = 0
    /\ flag = 0
    /\ halt = FALSE
    /\ sp = 0
    /\ pc = 0
    /\ a = 0
    /\ ram = [x \in RamAddrs |-> 0]
    /\ regs = RegistersDefault
    /\ memory = with_bootrom(MemoryNew)

NextMemory ==
    \/ \E address \in MemWriteAddrs, value \in MemValues :
         BusWrite(address, value)
    \/ \E address \in MemReadAddrs : BusRead(address)

SpecMemory == InitMemory /\ [][NextMemory]_vars

\* source pages of the OAM DMA: the cartridge header page and the first page
\* of the switched ROM bank
DmaValues == {1, 64}

\* the LCD advancing, the display switched on and off, OAM DMA started
NextDma ==
    \/ \E t \in Timings : LcdAdvance(t)
    \/ \E v \in LcdcValues : WriteLCDC(v)
    \/ \E v \in DmaValues : WriteDMA(v)

SpecDma == Init /\ [][NextDma]_vars

\* the stores a guest makes to set up a VRAM DMA: source 0x4000 (0xff51,
\* 0xff52), destination 0x8010 (0xff53, 0xff54), and to 0xff55 a one-block
\* general-purpose transfer, a two-block HBlank transfer, and its restart
HdmaStores ==
    {<<65361, 64>>, <<65362, 0>>, <<65363, 0>>, <<65364, 16>>,
     <<65365, 0>>, <<65365, 129>>}

\* the guest has switched the display on (0x80 stored to LCDC)
InitHdma ==
    /\ InitCpu /\ InitTimer /\ InitStep /\ InitAux /\ InitBus
    /\ display_enable = TRUE
    /\ enabled = FALSE
    /\ mode = "OAM"
    /\ ly = 0
    /\ mode_timing = 0
    /\ lyc = 0
    /\ lyc_equals_lc = FALSE
    /\ mode_2_oam = FALSE
    /\ mode_1_vblank = FALSE
    /\ mode_0_hblank = FALSE
    /\ coincidence = FALSE
    /\ oam_access = TRUE
    /\ vram_access = TRUE
    /\ done_frame = FALSE
    /\ video = [x \in VideoAddrs |-> 0]
    /\ video_bank = 0
    /\ oam = [x \in OamAddrs |-> 0]
    /\ drawn_line = NoLine
    /\ hdma_type = "None"
    /\ hdma_transfer = 0
    /\ dma_source = 0
    /\ dma_dest = 0

\* the LCD advances, the guest programs the DMA and reads its length register
NextHdma ==
    \/ \E t \in Timings : LcdRun(t)
    \/ \E st \in HdmaStores : WriteHDMA(st[1], st[2])
    \/ ReadHDMA(65365)

SpecHdma == InitHdma /\ [][NextHdma]_vars

\* ------------------------------------------------------------ LCD claims
\* a step that is one call of LCD::advance
AdvanceStep == \E t \in Timings : LcdAdvance(t)

\* the STAT enable bit that goes with mode m (mode 3 has none)
StatEnable(m) ==
    \/ (m = "HBlank" /\ mode_0_hblank)
    \/ (m = "VBlank" /\ mode_1_vblank)
    \/ (m = "OAM" /\ mode_2_oam)

\* the step changes the mode into one whose STAT enable bit is set
ModeInterrupt == mode' # mode /\ StatEnable(mode')

\* the advance of an enabled display ends on LY = LYC with the LYC enable set
CoincidenceInterrupt == display_enable /\ ly' = lyc' /\ lyc_equals_lc'

\* the step changes the mode into 1
EntersVBlank == mode # "VBlank" /\ mode' = "VBlank"

\* C1: while the display stays enabled the mode changes only along 2->3,
\* 3->0, 0->2 (LY incremented, below 144), 0->1 (LY incremented to 144) and
\* 1->2 (LY back to 0); within modes 2, 3, 0 LY does not move, and mode 1
\* holds exactly the lines 144..153.
ModeEdge ==
    /\ (mode' # mode) =>
          \/ (mode = "OAM" /\ mode' = "VRAM" /\ ly' = ly)
          \/ (mode = "VRAM" /\ mode' = "HBlank" /\ ly' = ly)
          \/ (mode = "HBlank" /\ mode' = "OAM" /\ ly' = ly + 1 /\ ly' < 144)
          \/ (mode = "HBlank" /\ mode' = "VBlank" /\ ly' = ly + 1 /\ ly' = 144)
          \/ (mode = "VBlank" /\ mode' = "OAM" /\ ly' = 0)
    /\ (mode' = mode /\ mode # "VBlank") => ly' = ly
    /\ (mode' = "VBlank") => ly' \in 144 .. 153
    /\ (mode' # "VBlank") => ly' < 144

C1_ModeSequence ==
    [][(enabled /\ display_enable /\ display_enable') => ModeEdge]_vars

\* C1 witness: a frame has just ended, line 0 resumes in mode 2
C1_Witness == enabled /\ done_frame /\ mode = "OAM" /\ ly = 0

\* C4: a step of the LCD sets IF bit 0 exactly when it changes the mode into
\* 1, which happens from LY 143 to LY 144; no step but the guest's write to
\* IF clears a bit of IF.
C4_VBlankInterrupt ==
    [][/\ ~Bit(flag, 0) => (Bit(flag', 0) <=> EntersVBlank)
       /\ EntersVBlank => (ly = 143 /\ ly' = 144 /\ Bit(flag', 0))
       /\ ~WriteIF(0) => \A b \in 0 .. 7 : Bit(flag, b) => Bit(flag', b)]_vars

\* C4 witness: VBlank entered at line 144 with IF bit 0 set
C4_Witness == mode = "VBlank" /\ ly = 144 /\ mode_timing < 36 /\ Bit(flag, 0)

\* C5: a step that changes the mode raises IF bit 1 exactly when the STAT
\* enable bit of the mode entered is set (mode 3 has none), the LY = LYC
\* interrupt apart; with the four STAT enable bits clear no step sets IF bit 1.
C5_StatInterrupt ==
    [][/\ (~Bit(flag, 1) /\ ~CoincidenceInterrupt) =>
             (Bit(flag', 1) <=> ModeInterrupt)
       /\ ModeInterrupt => Bit(flag', 1)
       /\ (~lyc_equals_lc /\ ~mode_2_oam /\ ~mode_1_vblank /\ ~mode_0_hblank)
             => (Bit(flag', 1) => Bit(flag, 1))]_vars

\* C5 witness: HBlank just entered with its STAT enable bit set, IF bit 1 set
C5_Witness ==
    enabled /\ mode = "HBlank" /\ mode_0_hblank /\ Bit(flag, 1) /\ drawn_line = 0

\* C6: after an advance of an enabled display the coincidence flag is
\* (LY = LYC), and IF bit 1 is raised for it exactly when LY = LYC and the
\* LYC enable bit is set.
C6_Coincidence ==
    [][(AdvanceStep /\ display_enable) =>
         /\ coincidence' = (ly' = lyc')
         /\ (~Bit(flag, 1) /\ ~ModeInterrupt) =>
               (Bit(flag', 1) <=> (ly' = lyc' /\ lyc_equals_lc'))]_vars

\* C6 witness: LY = LYC = 144 seen by an advance, LYC interrupt raised
C6_Witness ==
    enabled /\ coincidence /\ ly = 144 /\ lyc = 144 /\ lyc_equals_lc /\ Bit(flag, 1)

\* C8: after an advance OAM is blocked exactly in modes 2 and 3 of an enabled
\* display and VRAM exactly in mode 3; a read of a blocked region returns 0
\* and a write to a blocked region changes neither VRAM nor OAM.
C8_Access ==
    [][/\ AdvanceStep =>
            /\ oam_access' = ~(display_enable /\ mode' \in {"OAM", "VRAM"})
            /\ vram_access' = ~(display_enable /\ mode' = "VRAM")
       /\ \A x \in GuestVideoAddrs :
            (~vram_access /\ ReadLCD(x)) => bus' = 0
       /\ \A x \in GuestOamAddrs :
            (~oam_access /\ ReadLCD(x)) => bus' = 0
       /\ (~vram_access
             /\ \E x \in GuestVideoAddrs, v \in CellValues : WriteVRAM(x, v))
            => (video' = video /\ oam' = oam)
       /\ (~oam_access
             /\ \E x \in GuestOamAddrs, v \in CellValues : WriteOAM(x, v))
            => (video' = video /\ oam' = oam)]_vars

\* C8 witness: VRAM blocked in mode 3 over a nonzero byte, the read gave 0
C8_Witness ==
    mode = "VRAM" /\ ~vram_access /\ ~oam_access /\ video[32768] = 171 /\ bus = 0

Pending == BitAnd(enable, flag) % 32

\* the lowest bit set in v
LowestBit(v) == CHOOSE b \in 0 .. 4 : Bit(v, b) /\ \A c \in 0 .. 4 : (c < b => ~Bit(v, c))

\* a step in which CPU::handle_interrupts dispatches
DispatchStep ==
    /\ pos = "interrupts" /\ pos' = "timer"
    /\ interrupts_enabled /\ Pending > 0

\* C2: a dispatch serves the lowest bit set in both IE and IF, PC becomes
\* 0x40 + 8 * bit, and a bit of IF whose IE bit is clear stays set.
C2_LowestEnabled ==
    [][DispatchStep =>
         /\ pc' = 64 + 8 * LowestBit(Pending)
         /\ \A b \in 0 .. 7 : (Bit(flag, b) /\ ~Bit(enable, b)) => Bit(flag', b)]_vars

\* C3: a dispatch clears exactly one bit of IF, clears IME and halt, moves SP
\* down by 2 and costs 12 cycles.
C3_OneDispatch ==
    [][DispatchStep =>
         /\ \E b \in 0 .. 4 : Bit(flag, b) /\ flag' = ClearBit(flag, b)
         /\ ~interrupts_enabled'
         /\ ~halt'
         /\ sp' = (sp + 65534) % 65536
         /\ timing' = 12]_vars

\* C7: after a CPU step, whose last act is the LCD advance, a disabled
\* display (one never enabled included) shows LY = 0 and mode 0.
C7_DisabledForced ==
    (pos = "interrupts" /\ steps > 0 /\ ~display_enable) =>
        (ly = 0 /\ mode = "HBlank")

\* C10: a step attempts the dispatch first, fetches an opcode only when
\* nothing was dispatched, then advances the timer, then the LCD; so the
\* VBlank interrupt the LCD raised in one step, with IE = 0x01 and IME set,
\* is dispatched at the start of the next: PC = 0x0040, IME and IF bit 0
\* cleared.
C10_DispatchNextStep ==
    [][/\ pos = "interrupts" => pos' \in {"interrupts", "instruction", "timer"}
       /\ pos = "instruction" => pos' \in {"instruction", "timer"}
       /\ pos = "timer" => (pos' \in {"timer", "lcd"} /\ lcdVars' = lcdVars)
       /\ pos = "lcd" => (pos' \in {"lcd", "interrupts"} /\ timerVars' = timerVars)
       /\ (pos = "interrupts" /\ interrupts_enabled /\ Pending > 0) =>
             (pos' = "timer" /\ ~interrupts_enabled')
       /\ (/\ pos = "interrupts" /\ steps > 0
           /\ mode = "VBlank" /\ ly = 144
           /\ interrupts_enabled /\ enable = 1 /\ Bit(flag, 0)) =>
             (pc' = 64 /\ ~interrupts_enabled' /\ ~Bit(flag', 0))]_vars

\* C11: the CPU step that follows a press which latched the joypad interrupt
\* consumes the latch and ORs bit 4 into IF before it attempts dispatch (so
\* that bit 4 is set after the attempt unless it was just dispatched).
C11_JoypadInterrupt ==
    [][(pos = "interrupts" /\ pos' # "interrupts" /\ joypad.interrupts) =>
         /\ ~joypad'.interrupts
         /\ Bit(flag', 4) \/ (interrupts_enabled /\ Bit(enable, 4))]_vars

\* C12: a step of a halted CPU with IME clear fetches no opcode, costs 4
\* cycles that the timer and the LCD receive, and leaves PC, SP, the
\* registers, the stack and IF as they were; it leaves halt exactly when IF
\* is not 0.
C12_HaltIdle ==
    [][/\ (pos = "interrupts" /\ pos' # "interrupts"
             /\ halt /\ ~interrupts_enabled) =>
            /\ pos' = "timer" /\ timing' = 4
            /\ halt' = (flag = 0)
            /\ flag' = flag
            /\ pc' = pc /\ sp' = sp /\ a' = a /\ regs' = regs /\ ram' = ram
       /\ pos \in {"timer", "lcd"} =>
            /\ timing' = timing /\ halt' = halt
            /\ pc' = pc /\ sp' = sp /\ a' = a /\ regs' = regs /\ ram' = ram
       /\ pos = "timer" => (div'.timer - div.timer - timing) % 256 = 0
       /\ (pos = "lcd" /\ display_enable /\ enabled /\ mode' = mode) =>
            mode_timing' = mode_timing + timing]_vars

\* C12 witness: the halted CPU idled one step, the timer raised IF bit 2 in
\* it, and the second step woke the CPU without moving PC or SP
C12_Witness ==
    /\ steps = 1 /\ pos = "timer" /\ timing = 4
    /\ ~halt /\ ~interrupts_enabled /\ flag = 4
    /\ pc = 336 /\ sp = 65534

\* C13: from every reachable state, stepping the CPU reaches a step whose
\* LCD advance reports frame-done.
C13_FrameDone == []<>done_frame

\* C14: with TAC = 0x04 on a fresh timer, after N clocks fed in chunks of
\* any size TIMA has been incremented floor(N / 1024) times (short of the
\* first wrap, TIMA = floor(N / 1024)).
C14_TimaRate ==
    (tac.start /\ tac.clock = 0 /\ cycles < 262144) =>
        tima.value = cycles \div 1024

\* C16: a store to DIV sets DIV to 0 and clears the clocks accumulated
\* toward its next increment.
C16_DivReset ==
    [][(\E v \in ByteValues : WriteDIV(v)) =>
         (div'.value = 0 /\ div'.timer = 0)]_vars

\* C15: inc adds one to the value for each time the accumulated clocks
\* strictly exceed the rate (n times for a total T > rate, n = (T-1) / rate,
\* none for T <= rate), keeps the rest accumulated, and returns true exactly
\* when the value wrapped to 0; set_timer changes only the value and set_rate
\* only the rate.
C15_SubTimer ==
    [][/\ \A t \in IncValues : Inc(t) =>
            LET total == subtimer.timer + t
                n == IF total > subtimer.rate
                     THEN (total - 1) \div subtimer.rate ELSE 0
            IN /\ subtimer'.value = (subtimer.value + n) % 256
               /\ subtimer'.timer = total - n * subtimer.rate
               /\ subtimer'.rate = subtimer.rate
               /\ returned' = (subtimer.value + n >= 256)
       /\ \A v \in SetTimerValues : SetTimer(v) =>
            /\ subtimer'.value = v
            /\ subtimer'.timer = subtimer.timer
            /\ subtimer'.rate = subtimer.rate
       /\ \A r \in Rates : SetRate(r) =>
            /\ subtimer'.rate = r
            /\ subtimer'.timer = subtimer.timer
            /\ subtimer'.value = subtimer.value]_vars

\* C15 witness: at rate 16, 32 clocks gave one increment and 16 stay
\* accumulated
C15_Witness ==
    subtimer.rate = 16 /\ subtimer.timer = 16 /\ subtimer.value = 1 /\ ~returned

\* a pressed button of a selected group holds bit k of the nibble low:
\* action buttons are selected by bit 5 low, directions by bit 4 low
NibbleLow(action, direction) ==
    \/ (~Bit(joypad.flag, 5) /\ joypad.buttons[action])
    \/ (~Bit(joypad.flag, 4) /\ joypad.buttons[direction])

\* the nibble of the joypad register
Nibble ==
    (IF NibbleLow("A", "Right") THEN 0 ELSE 1)
    + (IF NibbleLow("B", "Left") THEN 0 ELSE 2)
    + (IF NibbleLow("Select", "Up") THEN 0 ELSE 4)
    + (IF NibbleLow("Start", "Down") THEN 0 ELSE 8)

\* C17: a read of the joypad returns 0xC0 | (last selected byte & 0x30) |
\* nibble, a nibble bit being 0 exactly for a pressed button of a selected
\* group, also when both groups are selected.
C17_JoypadRead ==
    [][ReadJoypad => bus' = 192 + BitAnd(joypad.flag, 48) + Nibble]_vars

\* C18: check_interrupts returns true exactly when a press changed a button
\* from released to pressed since the previous check, and clears the latch;
\* a press of a held button, a release and a select leave the latch alone.
C18_Latch ==
    [][/\ \A button \in PadButtons : Press(button) =>
            joypad'.interrupts = (joypad.interrupts \/ ~joypad.buttons[button])
       /\ \A button \in PadButtons : Release(button) =>
            joypad'.interrupts = joypad.interrupts
       /\ \A fl \in SelectValues : Select(fl) =>
            joypad'.interrupts = joypad.interrupts
       /\ CheckInterrupts =>
            (returned' = joypad.interrupts /\ ~joypad'.interrupts)]_vars

\* C18 witness: a check returned true for the press of A and cleared the latch
C18_Witness == returned /\ ~joypad.interrupts /\ joypad.buttons["A"]

\* the pair a PUSH opcode stores
Pushed(op) ==
    CASE op = 197 -> bc(Machine)
      [] op = 213 -> de(Machine)
      [] op = 229 -> hl(Machine)
      [] op = 245 -> af(Machine)

\* C19: PUSH of v stores the high byte at SP-1 and the low byte at SP-2 and
\* leaves SP decreased by 2; the POP that follows yields v and restores SP.
C19_PushPop ==
    [][\A op \in {197, 213, 229, 245} :
         (Execute(op, 0, 0) /\ sp - 2 \in RamAddrs) =>
            /\ sp' = sp - 2
            /\ ram'[sp - 1] = extract(Pushed(op))[1]
            /\ ram'[sp - 2] = extract(Pushed(op))[2]
            /\ op_pop(Machine').value = Pushed(op)
            /\ op_pop(Machine').s.sp = sp]_vars

\* C20: a 16-bit load of v into BC, DE or HL leaves v >> 8 in the first
\* register and v & 0xFF in the second, and the pair reads back as v; AF
\* written with v reads back as v & 0xFFF0.
C20_RegisterPairs ==
    [][\A ins \in RegInstructions :
         Execute(ins[1], ins[2], ins[3]) =>
            LET v == assemble(ins[3], ins[2])
            IN /\ ins[1] = 1 =>
                    (regs'.b = ins[3] /\ regs'.c = ins[2] /\ bc(Machine') = v)
               /\ ins[1] = 17 =>
                    (regs'.d = ins[3] /\ regs'.e = ins[2] /\ de(Machine') = v)
               /\ ins[1] = 33 =>
                    (regs'.h = ins[3] /\ regs'.l = ins[2] /\ hl(Machine') = v)
               /\ ins[1] = 241 =>
                    af(Machine') = (op_pop(Machine).value \div 16) * 16]_vars

\* C21: assemble(extract(v)) = v for every 16-bit v; extract(assemble(h, l))
\* = (h, l) and assemble(h, l) = 256*h + l for all bytes h, l.
C21_RoundTrip ==
    [][/\ Extract => assemble(conv'.high, conv'.low) = conv.value
       /\ Assemble => /\ extract(conv'.value) = <<conv.high, conv.low>>
                      /\ conv'.value = 256 * conv.high + conv.low]_vars

\* C21 witness: 0x1234 and its bytes 0x12, 0x34 after a conversion
C21_Witness == conv.value = 4660 /\ conv.high = 18 /\ conv.low = 52

\* C22: before its first step a CPU built without a boot ROM has PC=0x0100,
\* SP=0xFFFE, A=0x01, F=0xB0, BC=0x0013, DE=0x00D8, HL=0x014D; built with a
\* boot ROM it has PC=0x0000.
C22_PowerOn ==
    cycles = 0 =>
        IF memory.booting THEN pc = 0
        ELSE /\ pc = 256
             /\ sp = 65534
             /\ a = 1
             /\ flags_u8(regs.f) = 176
             /\ bc(Machine) = 19
             /\ de(Machine) = 216
             /\ hl(Machine) = 333

\* offsets inside the switched bank
BankOffsets == {0, 1}

\* C23: after any writes to the MBC1 registers the bank mapped at
\* 0x4000-0x7FFF is never 0 (nor 0x20, 0x40, 0x60), a read at 0x4000 + k never
\* returns bank 0's byte at offset k, and writing 0x00 to 0x2000 (upper bits
\* clear) selects bank 1.
C23_NeverBankZero ==
    [][\A address \in CartWriteAddrs, value \in CartValues :
         CartWrite(address, value) =>
            /\ mbc1'.rom_bank \notin {0, 32, 64, 96}
            /\ \A k \in BankOffsets :
                 mbc1_read(mbc1', 16384 + k) # RomByte(k)
            /\ (address = 8192 /\ value = 0 /\ mbc1.rom_bank < 32) =>
                 mbc1'.rom_bank = 1]_vars

\* C25: under the boot wrapper a read below 0x0100 returns the boot ROM byte,
\* every other read returns what the bare MBC returns, and every write has
\* the effect it has on the bare MBC.
C25_BootForwards ==
    [][/\ \A address \in CartWriteAddrs, value \in CartValues :
            CartWrite(address, value) => boot'.mbc = mbc1'
       /\ \A address \in CartReadAddrs :
            CartRead(address) =>
               IF address <= 255 THEN out'.boot = BootByte(address)
               ELSE out'.boot = out'.bare]_vars

\* C24: with the MBC2's RAM enabled, a write of v to an address a in
\* 0xA000-0xA1FF followed by a read of a returns v & 0x0F, without aborting.
C24_Mbc2Ram ==
    [][\A address \in Mbc2RamAddrs, value \in Mbc2Values :
         (Mbc2Write(address, value) /\ mbc2.ram_enabled) =>
            mbc2_read(mbc2', address) = value % 16]_vars

C27_Echo ==
    [][\A address \in EchoAddrs :
         /\ cpu_read(Machine', address) = cpu_read(Machine', address - 8192)
         /\ \A value \in MemValues :
              /\ BusWrite(address, value) =>
                   cpu_read(Machine', address - 8192) = value
              /\ BusWrite(address - 8192, value) =>
                   cpu_read(Machine', address) = value]_vars

\* C27 witness: bank 2 selected, its cell behind 0xDDFF/0xFDFF and bank 0's
\* cell behind 0xC000/0xE000 written, the latter read back
C27_Witness ==
    /\ memory.work_ram_bank = 2
    /\ memory.work_ram[11775] = 170
    /\ memory.work_ram[0] = 7
    /\ bus = 7

\* C28: a write of V to 0xFF46, in any LCD mode, leaves in every OAM byte i
\* the byte read at V*0x100 + i at the time of the write and changes nothing
\* outside OAM.
C28_OamDma ==
    \A V \in DmaValues :
        LET s1 == handle_write(Machine, 65350, V)
        IN /\ \A x \in OamAddrs :
                s1.oam[x] = mem_read(Machine, V * 256 + (x - 65024))
           /\ [s1 EXCEPT !.oam = oam] = Machine

\* the register bytes a guest programs a general-purpose DMA with
GdmaHighs == {0, 64}
GdmaLows == {0, 16}
GdmaDestLows == {0, 16, 32}
GdmaLengths == {0, 1}

\* the machine after the five stores of a general-purpose DMA and the
\* LCD::advance that ends the storing instruction's step
gdma_program(s, H, L, DH, DL, n, t) ==
    LET s1 == handle_write(s, 65361, H)
        s2 == handle_write(s1, 65362, L)
        s3 == handle_write(s2, 65363, DH)
        s4 == handle_write(s3, 65364, DL)
        s5 == handle_write(s4, 65365, n)
    IN advance(s5, t)

\* C29: with no HBlank DMA active, storing H, L to 0xFF51/0xFF52, DH, DL to
\* 0xFF53/0xFF54 and n (bit 7 clear) to 0xFF55 copies exactly the (n+1)*16
\* bytes at ((H<<8)|L) & 0xFFF0 to (((DH<<8)|DL) & 0x1FF0) | 0x8000, and
\* 0xFF55 then reads 0xFF.
C29_Gdma ==
    (hdma_type # "HDMA" /\ video_bank = 0) =>
        \A H \in GdmaHighs : \A L \in GdmaLows : \A DL \in GdmaDestLows :
        \A n \in GdmaLengths : \A t \in Timings :
            LET s6 == gdma_program(Machine, H, L, 0, DL, n, t)
                S == (H * 256 + L) - (L % 16)
                D == 32768 + (DL - (DL % 16))
            IN /\ \A c \in VideoAddrs :
                    s6.video[c] = IF c >= D /\ c < D + 16 * (n + 1)
                                  THEN mem_read(Machine, S + (c - D))
                                  ELSE video[c]
               /\ handle_read(s6, 65365) = 255
               /\ s6.hdma_type = "None"

\* the mode 3 -> 0 transition of the raster
HBlankEntered == mode = "VRAM" /\ mode' = "HBlank"

\* the video memory after the 16-byte block the DMA registers name is copied
BlockCopied ==
    LET S == dma_source - (dma_source % 16)
        D == 32768 + ((dma_dest % 8192) - (dma_dest % 16))
    IN [c \in VideoAddrs |->
          IF c >= D /\ c < D + 16 THEN mem_read(Machine, S + (c - D))
          ELSE video[c]]

\* a store to 0xFF55 with bit 7 clear while an HBlank DMA is active
Cancelled(value) ==
    LET s1 == handle_write(Machine, 65365, value)
    IN /\ s1 = [Machine EXCEPT !.hdma_transfer = hdma_transfer + 128,
                               !.hdma_type = "None"]
       /\ \A t \in Timings : advance(s1, t).video = video

\* C30: while an HBlank DMA is active one 16-byte block is copied on each
\* mode 3 -> 0 transition and none at any other time; the block that finds
\* the length register at 0 ends the transfer and leaves 0xFF in 0xFF55; a
\* store to 0xFF55 with bit 7 clear sets bit 7 of the length register, ends
\* the transfer and starts no general-purpose DMA, and without an active
\* transfer a mode 3 -> 0 transition copies nothing.
C30_Step ==
    /\ (hdma_type = "HDMA" /\ video_bank = 0) =>
          /\ hdma_transfer < 128
          /\ \A value \in {0, 1, 127} : Cancelled(value)
          /\ IF HBlankEntered
             THEN /\ video' = BlockCopied
                  /\ dma_source' = dma_source + 16
                  /\ dma_dest' = dma_dest + 16
                  /\ hdma_transfer' = (hdma_transfer + 255) % 256
                  /\ hdma_type' = IF hdma_transfer = 0 THEN "None" ELSE "HDMA"
                  /\ (hdma_transfer = 0) =>
                        handle_read(Machine', 65365) = 255
             ELSE /\ video' = video
                  /\ \/ hdma_type' = "HDMA" /\ hdma_transfer' = hdma_transfer
                     \/ /\ hdma_type' = "None"
                        /\ hdma_transfer' = hdma_transfer + 128
    /\ (hdma_type = "None" /\ HBlankEntered) =>
          video' = video /\ hdma_type' = "None"

StoreAddrs == {65295, 65535, 65284, 65287, 49152}
StoreValues == {5, 31}

\* the store instructions of CPU::handle_op: LD (BC),A, LD (DE),A, LD (HL+),A,
\* LD (HL-),A, LD (HL),B, LD (HL),A, LD (C),A, LDH (a8),A, LD (a16),A, PUSH BC
StoreInstructions ==
    {<<2, 0, 0>>, <<18, 0, 0>>, <<34, 0, 0>>, <<50, 0, 0>>, <<112, 0, 0>>,
     <<119, 0, 0>>, <<226, 0, 0>>, <<224, 15, 0>>, <<224, 255, 0>>,
     <<234, 15, 255>>, <<234, 255, 255>>, <<234, 5, 255>>, <<197, 0, 0>>}

\* a running guest that has loaded one address into BC, DE, HL and SP and a
\* byte into A
InitStore ==
    /\ InitLcd /\ InitTimer /\ InitStep /\ InitAux /\ InitBus
    /\ interrupts_enabled = FALSE
    /\ enable = 0
    /\ flag = 0
    /\ halt = FALSE
    /\ pc = 336
    /\ a \in StoreValues
    /\ ram = [x \in RamAddrs |-> 0]
    /\ memory = MemoryNew
    /\ \E address \in StoreAddrs :
          /\ sp = address
          /\ regs = [RegistersDefault EXCEPT
                       !.b = extract(address)[1], !.c = extract(address)[2],
                       !.d = extract(address)[1], !.e = extract(address)[2],
                       !.h = extract(address)[1], !.l = extract(address)[2]]

NextStore == \E ins \in StoreInstructions : Execute(ins[1], ins[2], ins[3])

SpecStore == InitStore /\ [][NextStore]_vars

\* the address and the byte of the (first) store an instruction makes
StoreTarget(ins) ==
    CASE ins[1] = 2 -> <<bc(Machine), a>>
      [] ins[1] = 18 -> <<de(Machine), a>>
      [] ins[1] \in {34, 50, 119} -> <<hl(Machine), a>>
      [] ins[1] = 112 -> <<hl(Machine), regs.b>>
      [] ins[1] = 226 -> <<65280 + regs.c, a>>
      [] ins[1] = 224 -> <<65280 + ins[2], a>>
      [] ins[1] = 234 -> <<ins[3] * 256 + ins[2], a>>
      [] ins[1] = 197 -> <<sp, regs.b>>

\* C31: every store instruction is routed by address: a store to 0xFF0F or
\* 0xFFFF leaves the byte in IF or IE, a store to 0xFF04..0xFF07 reaches the
\* timer (DIV reset, TIMA, TMA, TAC set), and no store aborts the emulator.
C31_StoreRouting ==
    ~memory.aborted =>
        \A ins \in StoreInstructions :
            LET s1 == handle_instruction(Machine, ins[1], ins[2], ins[3]).s
                address == StoreTarget(ins)[1]
                value == StoreTarget(ins)[2]
            IN /\ ~s1.memory.aborted
               /\ (address = 65295) => s1.flag = value
               /\ (address = 65535) => s1.enable = value
               /\ (address = 65284) => s1.div.value = 0
               /\ (address = 65285) => s1.tima.value = value
               /\ (address = 65286) => s1.tma = value
               /\ (address = 65287) =>
                     s1.tac = [start |-> Bit(value, 2), clock |-> value % 4]

\* ------------------------------------------------------- loading a ROM
\* a header with the same byte at every place of the title, the CGB and SGB
\* bytes, the cartridge-type byte and a checksum byte off by `off`
Header(title, cgb, sgb, kind, off) ==
    LET h == [i \in HeaderAddrs |->
                IF i <= 318 THEN title
                ELSE IF i = 323 THEN cgb
                ELSE IF i = 326 THEN sgb
                ELSE IF i = 327 THEN kind
                ELSE 0]
    IN [h EXCEPT ![333] = (header_sum(h, 332) + off) % 256]

\* too short by one byte, the shortest ROM, a 32 KiB ROM
LoadLens == {16383, 16384, 32768}
\* 'A', a byte of no UTF-8 text
LoadTitles == {65, 255}
LoadCgb == {0, 128}
LoadSgb == {0, 3}
\* ROM only, MBC1, 0x02, 0x04, MBC3+RAM+battery, MBC4, MBC5 with everything,
\* 0x1f, 0xfc, 0xff
LoadKinds == {0, 1, 2, 4, 19, 21, 30, 31, 252, 255}
\* right and wrong checksum byte
LoadOffs == {0, 1}

\* Cartridge::new() and the buffer read from the ROM file (with_path)
InitRom ==
    /\ InitLcd /\ InitCpu /\ InitTimer /\ InitStep /\ InitAux
    /\ conv = ConvNew
    /\ mbc2 = Mbc2New
    /\ mbc1 = Mbc1New
    /\ boot = BootWithMbc(Mbc1New)
    /\ out = [bare |-> 0, boot |-> 0]
    /\ mbc3 = Mbc3New
    /\ mbc5 = Mbc5New
    /\ \E len \in LoadLens, title \in LoadTitles, cgb \in LoadCgb,
          sgb \in LoadSgb, kind \in LoadKinds, off \in LoadOffs :
         cart = [CartridgeNew EXCEPT
                   !.data = [len |-> len,
                             header |-> Header(title, cgb, sgb, kind, off)]]

\* Cartridge::with_data(&data), called once by with_path
WithData ==
    /\ cart.result = "none"
    /\ cart' = [cart EXCEPT !.result = with_data(cart.data).result,
                            !.cartridge = with_data(cart.data).cartridge]
    /\ UNCHANGED <<lcdVars, cpuVars, timerVars, stepVars, auxVars, conv, mbc1,
                   boot, mbc2, out, mbc3, mbc5>>

NextRom == WithData

SpecRom == InitRom /\ [][NextRom]_vars

\* the Err values of cart::Error that with_data can return
LoadErrors == {"InvalidRom", "ChecksumFailed", "Str"}

\* C32: a load of a ROM of valid size and valid header checksum whose
\* cartridge-type byte has no supported controller returns a load error and
\* produces no cartridge; it does not abort
C32_UnsupportedType ==
    (/\ cart.result # "none"
     /\ cart.data.len >= 16384
     /\ verify_checksum(cart.data)
     /\ cart.data.header[327] \notin CartTypeArms)
        => cart.result \in LoadErrors

\* ------------------------------------------------------------- INC r
\* the bytes the registers hold at the start: a half carry, the wrap to 0
IncBytes == {15, 255}

\* INC B, C, D, E, H, L, A with the register each is documented to count;
\* OR A
IncOps ==
    {<<"b", 4>>, <<"c", 12>>, <<"d", 20>>, <<"e", 28>>, <<"h", 36>>,
     <<"l", 44>>, <<"a", 60>>}
IncInstructions ==
    {<<p[2], 0, 0>> : p \in IncOps} \cup
    {<<183, 0, 0>>}

\* CPU::new with the registers and the carry flag a program left
InitInc ==
    /\ InitLcd /\ InitTimer /\ InitStep /\ InitAux /\ InitBus
    /\ interrupts_enabled = FALSE
    /\ enable = 0
    /\ flag = 0
    /\ halt = FALSE
    /\ sp = 65534
    /\ pc = 336
    /\ ram = [x \in RamAddrs |-> 0]
    /\ memory = MemoryNew
    /\ \E v \in IncBytes, carry \in BOOLEAN :
          /\ a = v
          /\ regs = [b |-> v, c |-> v, d |-> v, e |-> v, h |-> v, l |-> v,
                     f |-> [zero |-> FALSE, carry |-> carry,
                            add_sub |-> TRUE, half_carry |-> FALSE]]

NextInc == \E ins \in IncInstructions : Execute(ins[1], ins[2], ins[3])

SpecInc == InitInc /\ [][NextInc]_vars

\* the 8-bit register `r` of the machine `s`
Reg8(s, r) == IF r = "a" THEN s.a ELSE s.regs[r]

\* C33: INC r leaves (r + 1) mod 256 in r and every other 8-bit register
\* unchanged, sets H iff the low nibble of r was 0x0F, clears N, sets Z iff
\* the result is 0 and leaves C unchanged
C33_Inc ==
    \A p \in IncOps :
        LET s1 == handle_instruction(Machine, p[2], 0, 0).s
            v == Reg8(Machine, p[1])
        IN /\ Reg8(s1, p[1]) = (v + 1) % 256
           /\ \A q \in {o[1] : o \in IncOps} \ {p[1]} :
                 Reg8(s1, q) = Reg8(Machine, q)
           /\ s1.regs.f.half_carry = (v % 16 = 15)
           /\ ~s1.regs.f.add_sub
           /\ s1.regs.f.zero = ((v + 1) % 256 = 0)
           /\ s1.regs.f.carry = regs.f.carry

\* --------------------------------------------------------- ADD HL,rr
\* carries out of bit 7, bit 11 and bit 15, and none
AddWords == {1, 255, 2048, 4095, 65535}

\* ADD HL,BC; ADD HL,DE; ADD HL,HL; ADD HL,SP
AddHlOps == {9, 25, 41, 57}

\* the word ADD HL,rr of opcode `op` adds to HL
AddHlOperand(s, op) ==
    IF op = 9 THEN bc(s) ELSE IF op = 25 THEN de(s)
    ELSE IF op = 41 THEN hl(s) ELSE s.sp

\* CPU::new with the register pairs and the zero flag a program left
InitAddHl ==
    /\ InitLcd /\ InitTimer /\ InitStep /\ InitAux /\ InitBus
    /\ interrupts_enabled = FALSE
    /\ enable = 0
    /\ flag = 0
    /\ halt = FALSE
    /\ pc = 336
    /\ a = 0
    /\ ram = [x \in RamAddrs |-> 0]
    /\ memory = MemoryNew
    /\ \E v \in AddWords, w \in AddWords, zero \in BOOLEAN :
          /\ sp = w
          /\ regs = [b |-> extract(w)[1], c |-> extract(w)[2],
                     d |-> extract(w)[1], e |-> extract(w)[2],
                     h |-> extract(v)[1], l |-> extract(v)[2],
                     f |-> [zero |-> zero, carry |-> FALSE,
                            add_sub |-> TRUE, half_carry |-> FALSE]]

NextAddHl == \E op \in AddHlOps : Execute(op, 0, 0)

SpecAddHl == InitAddHl /\ [][NextAddHl]_vars

\* C34: ADD HL,rr leaves (HL + rr) mod 65536 in HL, sets H iff the low 12
\* bits carry into bit 12, sets C iff the sum exceeds 0xFFFF, clears N and
\* leaves Z unchanged
C34_AddHl ==
    \A op \in AddHlOps :
        LET s1 == handle_instruction(Machine, op, 0, 0).s
            v == hl(Machine)
            w == AddHlOperand(Machine, op)
        IN /\ hl(s1) = (v + w) % 65536
           /\ s1.regs.f.half_carry = ((v % 4096) + (w % 4096) > 4095)
           /\ s1.regs.f.carry = (v + w > 65535)
           /\ ~s1.regs.f.add_sub
           /\ s1.regs.f.zero = regs.f.zero

\* ------------------------------------------------- cycles and the frame
\* the clocks of one advance
FrameTimings == 1 .. 24

\* 144 lines of modes 2, 3, 0 and the vertical blank
FRAME_CYCLES ==
    SCREEN_HEIGHT * (OAM_CYCLES + VRAM_CYCLES + HBLANK_CYCLES) + VBLANK_CYCLES

NextDrift == \E t \in FrameTimings : LcdFeed(t)

SpecDrift == InitHdma /\ [][NextDrift]_vars

\* the durations of the modes completed since the frame began, for the mode
\* and line the LCD is in
ModesCompleted ==
    IF mode = "VBlank"
    THEN SCREEN_HEIGHT * (OAM_CYCLES + VRAM_CYCLES + HBLANK_CYCLES)
    ELSE ly * (OAM_CYCLES + VRAM_CYCLES + HBLANK_CYCLES)
         + (IF mode = "OAM" THEN 0
            ELSE IF mode = "VRAM" THEN OAM_CYCLES
            ELSE OAM_CYCLES + VRAM_CYCLES)

CostInstructions ==
    {<<0, 0, 0>>, <<62, 5, 0>>, <<119, 0, 0>>, <<52, 0, 0>>, <<224, 240, 0>>,
     <<234, 0, 192>>, <<203, 6, 0>>, <<24, 0, 0>>}

\* CPU::new, HL pointing at work RAM
InitCost ==
    /\ InitLcd /\ InitTimer /\ InitStep /\ InitAux /\ InitBus
    /\ interrupts_enabled = FALSE
    /\ enable = 0
    /\ flag = 0
    /\ halt = FALSE
    /\ sp = 65534
    /\ pc = 336
    /\ a = 0
    /\ ram = [x \in RamAddrs |-> 0]
    /\ memory = MemoryNew
    /\ regs = [RegistersDefault EXCEPT !.h = 192]

\* CPU::step in one piece; cycles counts the clocks LCD::advance was given
CostStep(op, b1, b2) ==
    /\ pos = "interrupts"
    /\ \E s1 \in {cpu_step(Machine, op, b1, b2)} :
          /\ cycles + s1.timing <= MaxOpCycles
          /\ SetCore(s1)
          /\ cycles' = cycles + s1.timing
    /\ UNCHANGED <<joypad, subtimer, returned, busVars>>

NextCost == \E ins \in CostInstructions : CostStep(ins[1], ins[2], ins[3])

SpecCost == InitCost /\ [][NextCost]_vars

\* the clocks Timer::advance was given since power-on, as the divider holds
\* them (no store to DIV is made)
TimerClocks == div.value * div.rate + div.timer

\* C36: at normal speed every step advances the timer by as many clocks as
\* it advances the LCD by, the cost the instruction reports, so the totals
\* fed to the timer and to the LCD are equal after any sequence of steps
C36_SameClocks == TimerClocks = cycles

\* ------------------------------------------------- MBC1 bank registers
\* C37: on an MBC1 in mode 0 a store of v to 0x4000-0x5FFF sets bits 5-6 of
\* the ROM bank to v & 3 and leaves its low 5 bits unchanged, a store to
\* 0x2000-0x3FFF changes only the low 5 bits, and in mode 1 a store of v to
\* 0x4000-0x5FFF sets the RAM bank to v & 3 and leaves the ROM bank unchanged
C37_BankBits ==
    \A v \in Bytes :
        LET upper == mbc1_write(mbc1, 16384, v)
            lower == mbc1_write(mbc1, 8192, v)
        IN /\ mbc1.rom_ram_mode = 0 =>
                /\ (upper.rom_bank \div 32) % 4 = v % 4
                /\ upper.rom_bank % 32 = mbc1.rom_bank % 32
           /\ lower.rom_bank \div 32 = mbc1.rom_bank \div 32
           /\ mbc1.rom_ram_mode = 1 =>
                /\ upper.ram_bank = v % 4
                /\ upper.rom_bank = mbc1.rom_bank

\* ------------------------------------------------------ cartridge RAM
\* the tracked cells of the MBC1's and the MBC5's RAM: offsets 0 and 0x1000
\* of the MBC1's banks, offset 0 of the MBC5's banks 0, 1, 7, 8 and 15
RamCells1 == {0, 4096, 8192, 12288}
RamCells5 == {0, 8192, 57344, 65536, 122880}

\* what a guest stores: RAM enable (0x0A, 0x1A) and disable (0x00, 0xA0),
\* bank 0, 1 and 8, the mode, two bytes at 0xA000 and one at 0xB000
RamStores ==
    {<<0, 10>>, <<0, 26>>, <<0, 0>>, <<0, 160>>,
     <<16384, 0>>, <<16384, 1>>, <<16384, 8>>,
     <<24576, 1>>, <<24576, 0>>,
     <<40960, 17>>, <<40960, 34>>, <<45056, 17>>}
RamLoads == {40960, 45056}

\* MBC1::new, MBC3::new and MBC5::new on a cartridge with RAM
InitRam ==
    /\ InitLcd /\ InitCpu /\ InitTimer /\ InitStep /\ InitAux
    /\ conv = ConvNew
    /\ mbc2 = Mbc2New
    /\ boot = BootWithMbc(Mbc1New)
    /\ cart = CartridgeNew
    /\ mbc1 = [Mbc1New EXCEPT !.ram = [x \in RamCells1 |-> 0]]
    /\ mbc3 = Mbc3New
    /\ mbc5 = [Mbc5New EXCEPT !.ram = [x \in RamCells5 |-> 0]]
    /\ out = [mbc1 |-> 0, mbc3 |-> 0, mbc5 |-> 0]

\* MBC::write sent to each of the three controllers
RamWrite(address, value) ==
    /\ mbc1' = mbc1_write(mbc1, address, value)
    /\ mbc3' = mbc3_write(mbc3, address, value)
    /\ mbc5' = mbc5_write(mbc5, address, value)
    /\ UNCHANGED <<lcdVars, cpuVars, timerVars, stepVars, auxVars, conv, boot,
                   mbc2, out, cart>>

\* MBC::read sent to each of the three controllers
RamRead(address, wrap) ==
    /\ out' = [mbc1 |-> mbc1_read(mbc1, address),
               mbc3 |-> mbc3_read(mbc3, address),
               mbc5 |-> mbc5_read(mbc5, address, wrap)]
    /\ UNCHANGED <<lcdVars, cpuVars, timerVars, stepVars, auxVars, conv, mbc1,
                   boot, mbc2, cart, mbc3, mbc5>>

NextRam ==
    \/ \E st \in RamStores : RamWrite(st[1], st[2])
    \/ \E address \in RamLoads, wrap \in BOOLEAN : RamRead(address, wrap)

SpecRam == InitRam /\ [][NextRam]_vars

\* the RAM addresses at which the controller has a tracked cell in the bank
\* selected (for the MBC3 a RAM cell or a clock register)
Stored1(m, address) ==
    (4096 * m.ram_bank + (address - 40960)) \in DOMAIN m.ram
Stored3(m, address) ==
    IF m.ram_bank <= 3
    THEN (4096 * m.ram_bank + (address - 40960)) \in DOMAIN m.ram
    ELSE m.ram_bank >= 8 /\ m.ram_bank <= 12
Stored5(m, address) ==
    (8192 * m.ram_bank + (address - 40960)) \in DOMAIN m.ram

\* the bytes of the stores
StoreBytes == {st[2] : st \in RamStores}

\* a value stored, then RAM disabled, written and enabled again
StoredAndGated1(m, address, v, w) ==
    mbc1_write(mbc1_write(mbc1_write(mbc1_write(m, address, v), 0, 0),
                          address, w), 8191, 10)
StoredAndGated3(m, address, v, w) ==
    mbc3_write(mbc3_write(mbc3_write(mbc3_write(m, address, v), 0, 0),
                          address, w), 8191, 10)
StoredAndGated5(m, address, v, w) ==
    mbc5_write(mbc5_write(mbc5_write(mbc5_write(m, address, v), 0, 0),
                          address, w), 8191, 10)

\* the enable flag follows every store to 0x0000-0x1FFF and no other store
GateFollows ==
    \A st \in RamStores : \A address \in {st[1], st[1] + 8191} :
        /\ mbc1_write(mbc1, address, st[2]).ram_enabled =
              (IF address <= 8191 THEN st[2] % 16 = 10 ELSE mbc1.ram_enabled)
        /\ mbc3_write(mbc3, address, st[2]).ram_enabled =
              (IF address <= 8191 THEN st[2] % 16 = 10 ELSE mbc3.ram_enabled)
        /\ mbc5_write(mbc5, address, st[2]).ram_enabled =
              (IF address <= 8191 THEN st[2] % 16 = 10 ELSE mbc5.ram_enabled)

\* stores to the RAM area of a controller with RAM disabled change no byte
GateShuts ==
    \A address \in RamLoads, v \in StoreBytes :
        /\ ~mbc1.ram_enabled => mbc1_write(mbc1, address, v).ram = mbc1.ram
        /\ ~mbc3.ram_enabled =>
              /\ mbc3_write(mbc3, address, v).ram = mbc3.ram
              /\ mbc3_write(mbc3, address, v).rtc = mbc3.rtc
        /\ ~mbc5.ram_enabled => mbc5_write(mbc5, address, v).ram = mbc5.ram

\* a value stored with RAM enabled is read back after RAM was disabled,
\* written and enabled again
GateKeeps ==
    \A address \in RamLoads, v \in StoreBytes, w \in StoreBytes :
        /\ (mbc1.ram_enabled /\ Stored1(mbc1, address)) =>
              mbc1_read(StoredAndGated1(mbc1, address, v, w), address) = v
        /\ (mbc3.ram_enabled /\ Stored3(mbc3, address)) =>
              mbc3_read(StoredAndGated3(mbc3, address, v, w), address) = v
        /\ (mbc5.ram_enabled /\ Stored5(mbc5, address)) =>
              \A wrap \in BOOLEAN :
                  mbc5_read(StoredAndGated5(mbc5, address, v, w), address,
                            wrap) = v

\* C38: the RAM of an MBC1, MBC3 and MBC5 is disabled at first and then
\* enabled exactly when the last store to 0x0000-0x1FFF had the low nibble
\* 0x0A; while it is disabled stores to 0xA000-0xBFFF change no RAM byte, so
\* a value stored while enabled is read back unchanged after a disable, a
\* store and an enable
C38_RamGate ==
    /\ ~mbc1.ram_enabled /\ ~mbc3.ram_enabled /\ ~mbc5.ram_enabled
    /\ [](GateFollows /\ GateShuts /\ GateKeeps)

\* RAM enabled, the MBC1 in mode 1, and RAM bank `bank` selected
Select1(m, bank) ==
    mbc1_write(mbc1_write(mbc1_write(m, 0, 10), 24576, 1), 16384, bank)
Select5(m, bank) == mbc5_write(mbc5_write(m, 0, 10), 16384, bank)

\* the (bank, offset) pairs checked: the banks a guest can select and the
\* offsets whose cells are tracked
Pairs1 ==
    {p \in (0 .. 3) \X {0, 4096} : (4096 * p[1] + p[2]) \in RamCells1}
Pairs5 == {p \in (0 .. 15) \X {0} : (8192 * p[1] + p[2]) \in RamCells5}

\* the bytes stored into a pair
PairBytes == {90, 165}

\* C39: with RAM enabled every (RAM bank, offset) pair of an MBC1 (banks
\* 0-3) and of an MBC5 (banks 0-15) is a cell of its own: a read returns the
\* value last stored at the same bank and offset, a store to one pair does
\* not change what a read of another pair returns, and no access aborts
C39_DistinctCells ==
    /\ \A p \in Pairs1, q \in Pairs1, v \in PairBytes :
          LET before == mbc1_read(Select1(mbc1, q[1]), 40960 + q[2])
              m == mbc1_write(Select1(mbc1, p[1]), 40960 + p[2], v)
              after == mbc1_read(Select1(m, q[1]), 40960 + q[2])
          IN /\ after # Abort
             /\ after = (IF p = q THEN v ELSE before)
    /\ \A p \in Pairs5, q \in Pairs5, v \in PairBytes, wrap \in BOOLEAN :
          LET before == mbc5_read(Select5(mbc5, q[1]), 40960 + q[2], wrap)
              m == mbc5_write(Select5(mbc5, p[1]), 40960 + p[2], v)
              after == mbc5_read(Select5(m, q[1]), 40960 + q[2], wrap)
          IN /\ after # Abort
             /\ after = (IF p = q THEN v ELSE before)

\* ------------------------------------------------------------------ JR
\* JR e, JR NZ,e, JR Z,e, JR NC,e, JR C,e
JrOps == {24, 32, 40, 48, 56}
\* forward by 2 and by 127, backward by 128, by 2 and by 1
JrOperands == {2, 127, 128, 254, 255}

\* whether the JR of opcode `op` is taken by the machine `s`
JrTaken(s, op) ==
    IF op = 24 THEN TRUE
    ELSE IF op = 32 THEN ~s.regs.f.zero
    ELSE IF op = 40 THEN s.regs.f.zero
    ELSE IF op = 48 THEN ~s.regs.f.carry
    ELSE s.regs.f.carry

\* CPU::new with the flags a program left
InitJr ==
    /\ InitLcd /\ InitTimer /\ InitStep /\ InitAux /\ InitBus
    /\ interrupts_enabled = FALSE
    /\ enable = 0
    /\ flag = 0
    /\ halt = FALSE
    /\ sp = 65534
    /\ pc = 336
    /\ a = 0
    /\ ram = [x \in RamAddrs |-> 0]
    /\ memory = MemoryNew
    /\ \E zero \in BOOLEAN, carry \in BOOLEAN :
          regs = [RegistersDefault EXCEPT !.f.zero = zero, !.f.carry = carry]

NextJr == \E op \in JrOps, e \in JrOperands : Execute(op, e, 0)

SpecJr == InitJr /\ [][NextJr]_vars

\* the operand byte read as a signed 8-bit offset
Signed8(e) == IF e >= 128 THEN e - 256 ELSE e

\* C40: a taken JR sets PC to the address after the operand plus the operand
\* read as a signed 8-bit offset and costs 12 cycles; a JR not taken only
\* skips the operand and costs 8
C40_Jr ==
    \A op \in JrOps, e \in JrOperands :
        LET r == handle_instruction(Machine, op, e, 0)
        IN IF JrTaken(Machine, op)
           THEN /\ r.s.pc = (pc + 2 + Signed8(e) + 65536) % 65536
                /\ r.t = 12
           ELSE /\ r.s.pc = (pc + 2) % 65536
                /\ r.t = 8

====
